---- MODULE Spec2Model ----
(***************************************************************************)
(* Model of the PO/router split-point detection and split execution of     *)
(* enhanced_pdf_splitter.py (class EnhancedPDFSplitter).                   *)
(*                                                                         *)
(* Representation.                                                         *)
(*  - A text is a sequence of phrases; a phrase is a run of characters in  *)
(*    which the regular expressions of the source match as tabulated in    *)
(*    PhraseHits / PhraseGroup / PhraseFeature (the tables were obtained   *)
(*    by running the source's expressions on the phrases).  No expression  *)
(*    matches across two phrases of the vocabulary.                        *)
(*  - A confidence is a Python float, an IEEE-754 binary64 value.  Every  *)
(*    double of magnitude in [2^-7, 16), and 0.0, is a whole multiple of   *)
(*    2^-60; a float is modelled as a sign and that multiple, held in      *)
(*    three limbs of 20 bits.  Sums, products and quotients are computed   *)
(*    exactly and then rounded to 53 significant bits, ties to even, as    *)
(*    the hardware does, so 0.6 + 0.3 is 0.8999999999999999 here too.      *)
(*  - An output PDF file is a record: whether it exists, and the sequence  *)
(*    of the page indexes (of the input document) it contains.             *)
(***************************************************************************)
EXTENDS Integers, Sequences, FiniteSets, TLC

\* Python's None where an Optional[int] is expected (an index or a page count
\* is never negative).
None == -1

\* Largest number of pages of an input document.
MaxPages == 3

\* Largest number of PDFs in the incoming directory.
MaxFiles == 4

Max(a, b) == IF a > b THEN a ELSE b
Abs(a) == IF a < 0 THEN 0 - a ELSE a

RECURSIVE SumSeq(_)
SumSeq(s) == IF s = <<>> THEN 0 ELSE Head(s) + SumSeq(Tail(s))

Range(s) == {s[i] : i \in DOMAIN s}

(***************************************************************************)
(* Python floats.  A magnitude <<a, b, c>> stands for                      *)
(* (a * 2^40 + b * 2^20 + c) * 2^-60.                                      *)
(***************************************************************************)
Limb == 2^20

\* Carries the excess of the two low limbs upward.
Norm(m) ==
  LET c == m[3] % Limb
      b == (m[2] + m[3] \div Limb) % Limb
      a == m[1] + (m[2] + m[3] \div Limb) \div Limb
  IN  <<a, b, c>>

MagAdd(x, y) == Norm(<<x[1] + y[1], x[2] + y[2], x[3] + y[3]>>)

MagLess(x, y) ==
  \/ x[1] < y[1]
  \/ x[1] = y[1] /\ x[2] < y[2]
  \/ x[1] = y[1] /\ x[2] = y[2] /\ x[3] < y[3]

\* x - y for y <= x.
MagSub(x, y) ==
  LET b3 == IF x[3] < y[3] THEN 1 ELSE 0
      b2 == IF x[2] - b3 < y[2] THEN 1 ELSE 0
  IN  <<x[1] - y[1] - b2, x[2] - b3 - y[2] + b2 * Limb, x[3] - y[3] + b3 * Limb>>

MagMul(x, k) == Norm(<<x[1] * k, x[2] * k, x[3] * k>>)

\* Quotient and remainder of x by the small positive integer k.
MagDivMod(x, k) ==
  LET r1 == x[1] % k
      n2 == r1 * Limb + x[2]
      r2 == n2 % k
      n3 == r2 * Limb + x[3]
  IN  [quot |-> <<x[1] \div k, n2 \div k, n3 \div k>>, rem |-> n3 % k]

\* Number of bits of a natural number below 2^30.
BitLen(n) == CHOOSE k \in 0..30 : n < 2^k /\ (k = 0 \/ n >= 2^(k - 1))

\* Rounds the exact value q + rem/k (in units of 2^-60) to 53 significant
\* bits, ties to even.  A magnitude of at most 53 bits is kept as it is.
RoundMag(q, rem, k) ==
  LET s == Max(BitLen(q[1]) - 13, 0)
      low == q[3] % 2^s
      kept == <<q[1], q[2], q[3] - low>>
      odd == (q[3] \div 2^s) % 2 = 1
      twice == 2 * (low * k + rem)
      up == twice > 2^s * k \/ (twice = 2^s * k /\ odd)
  IN  IF up THEN Norm(<<kept[1], kept[2], kept[3] + 2^s>>) ELSE kept

Float(neg, m) == [neg |-> neg /\ m # <<0, 0, 0>>, m |-> m]

\* x + y
FAdd(x, y) ==
  IF x.neg = y.neg THEN Float(x.neg, RoundMag(MagAdd(x.m, y.m), 0, 1))
  ELSE IF MagLess(x.m, y.m) THEN Float(y.neg, RoundMag(MagSub(y.m, x.m), 0, 1))
  ELSE Float(x.neg, RoundMag(MagSub(x.m, y.m), 0, 1))

FNeg(x) == Float(~x.neg, x.m)

\* x - y
FSub(x, y) == FAdd(x, FNeg(y))

\* k * x for an int k >= 0
FMul(k, x) == Float(x.neg, RoundMag(MagMul(x.m, k), 0, 1))

\* x / k for an int k > 0
FDiv(x, k) ==
  Float(x.neg, RoundMag(MagDivMod(x.m, k).quot, MagDivMod(x.m, k).rem, k))

\* x < y
FLess(x, y) ==
  IF x.neg # y.neg THEN x.neg
  ELSE IF x.neg THEN MagLess(y.m, x.m) ELSE MagLess(x.m, y.m)

\* x <= y
FLeq(x, y) == ~FLess(y, x)

\* min(x, y)
FMin(x, y) == IF FLess(y, x) THEN y ELSE x

\* The float literal n/10: Tenth(7) is 0.7.
Tenth(n) ==
  Float(FALSE,
    CASE n =  0 -> <<0, 0, 0>>
      [] n =  1 -> <<104857, 629145, 629152>>
      [] n =  2 -> <<209715, 209715, 209728>>
      [] n =  3 -> <<314572, 838860, 838848>>
      [] n =  4 -> <<419430, 419430, 419456>>
      [] n =  5 -> <<524288, 0, 0>>
      [] n =  6 -> <<629145, 629145, 629120>>
      [] n =  7 -> <<734003, 209715, 209664>>
      [] n =  8 -> <<838860, 838860, 838912>>
      [] n =  9 -> <<943718, 419430, 419456>>
      [] n = 10 -> <<1048576, 0, 0>>)

Zero == Tenth(0)
One == Tenth(10)

\* sum of a sequence of floats, added from the left starting at 0.0
RECURSIVE FSumFrom(_, _)
FSumFrom(acc, s) ==
  IF s = <<>> THEN acc ELSE FSumFrom(FAdd(acc, Head(s)), Tail(s))

(***************************************************************************)
(* Pattern tables of __init__.                                             *)
(***************************************************************************)
Strengths == <<"very_strong", "strong", "medium", "weak">>

router_patterns ==
  [very_strong |-> <<"routing sheet", "manufacturing routing",
                     "work order routing", "router sheet",
                     "process routing sheet">>,
   strong      |-> <<"operation sheet", "process sheet",
                     "routing instructions", "work instructions",
                     "manufacturing instructions">>,
   medium      |-> <<"router", "routing", "operation sequence",
                     "job routing", "process flow">>,
   weak        |-> <<"op N", "operation N", "setup time", "cycle time",
                     "machine center", "work center">>]

po_patterns ==
  <<"purchase order", "po number", "vendor name", "ship to", "bill to",
    "payment terms", "delivery date", "quantity ordered", "unit price",
    "total amount">>

page_patterns ==
  <<"page 1 of (N)", "page1of(N)", "page 1/(N)", "1 of (N) pages", "1/(N)">>

ocr_page_patterns ==
  <<"page [il1|] of (N)", "page [dilo|]+ of (N)", "[il1|] of (N) page">>

(***************************************************************************)
(* The vocabulary of phrases and what the expressions find in them.        *)
(***************************************************************************)
Vocabulary ==
  {"body", "purchase order", "page 1 of 2", "page l of 2", "routing sheet",
   "operation 10", "manufacturing routing", "operation sequence",
   "setup time", "machine center", "work instructions", "25 mm"}

\* Number of characters of a phrase ("body" is a sentence of running text).
PhraseLen(ph) ==
  CASE ph = "body"                  -> 61
    [] ph = "purchase order"        -> 14
    [] ph = "page 1 of 2"           -> 11
    [] ph = "page l of 2"           -> 11
    [] ph = "routing sheet"         -> 13
    [] ph = "operation 10"          -> 12
    [] ph = "manufacturing routing" -> 21
    [] ph = "operation sequence"    -> 18
    [] ph = "setup time"            -> 10
    [] ph = "machine center"        -> 14
    [] ph = "work instructions"     -> 17
    [] ph = "25 mm"                 -> 5

\* The router and PO patterns that occur (once each) in a phrase.
PhraseHits(ph) ==
  CASE ph = "purchase order"        -> {"purchase order"}
    [] ph = "routing sheet"         -> {"routing sheet", "routing"}
    [] ph = "operation 10"          -> {"operation N"}
    [] ph = "manufacturing routing" -> {"manufacturing routing", "routing"}
    [] ph = "operation sequence"    -> {"operation sequence"}
    [] ph = "setup time"            -> {"setup time"}
    [] ph = "machine center"        -> {"machine center"}
    [] ph = "work instructions"     -> {"work instructions"}
    [] OTHER                        -> {}

\* int(match.group(1)) of a page pattern in a phrase, None without a match.
PhraseGroup(pattern, ph) ==
  CASE ph = "page 1 of 2" /\ pattern \in {"page 1 of (N)", "page1of(N)",
                                           "page [il1|] of (N)",
                                           "page [dilo|]+ of (N)"} -> 2
    [] ph = "page l of 2" /\ pattern \in {"page [il1|] of (N)",
                                           "page [dilo|]+ of (N)"} -> 2
    [] OTHER -> None

\* Occurrences in a phrase of the four feature expressions of
\* detect_by_content_transition.
PhraseFeature(feature, ph) ==
  CASE feature = "numeric_ops"        /\ ph = "operation 10"   -> 1
    [] feature = "time_references"    /\ ph = "setup time"     -> 1
    [] feature = "machine_references" /\ ph = "machine center" -> 2
    [] feature = "measurements"       /\ ph = "25 mm"          -> 1
    [] OTHER -> 0

(***************************************************************************)
(* re.findall / re.search / len(text.strip()) on a text.                   *)
(***************************************************************************)
\* len(re.findall(pattern, text, re.IGNORECASE))
FindAll(pattern, text) ==
  Cardinality({i \in DOMAIN text : pattern \in PhraseHits(text[i])})

\* Sum of len(re.findall(p, text)) over the patterns p of a sequence.
RECURSIVE FindAllSum(_, _)
FindAllSum(patterns, text) ==
  IF patterns = <<>> THEN 0
  ELSE FindAll(Head(patterns), text) + FindAllSum(Tail(patterns), text)

\* len(re.findall(<feature expression>, text, re.IGNORECASE))
FeatureCount(feature, text) ==
  SumSeq([i \in DOMAIN text |-> PhraseFeature(feature, text[i])])

\* re.search(pattern, text): group 1 of the leftmost match, else None.
Search(pattern, text) ==
  LET hits == {i \in DOMAIN text : PhraseGroup(pattern, text[i]) # None}
  IN  IF hits = {} THEN None
      ELSE PhraseGroup(pattern, text[CHOOSE i \in hits : \A j \in hits : i <= j])

\* len(text.strip()): the phrases and one separator between neighbours.
StripLen(text) ==
  IF text = <<>> THEN 0
  ELSE SumSeq([i \in DOMAIN text |-> PhraseLen(text[i])]) + Len(text) - 1

(***************************************************************************)
(* Documents.  A page carries what the collaborators report for it: the    *)
(* text of native extraction, the outcome of OCR (a text, or OcrFailed for *)
(* a non-zero exit status, a timeout or any other exception), its size and *)
(* its text spans.  A page without native text has no spans.               *)
(***************************************************************************)
OcrFailed == <<"ocr failed">>

Spans(font, size, n) == [i \in 1..n |-> [font |-> font, size |-> size]]

TextPage(native, width, height, spans) ==
  [native |-> native, ocr |-> native, width |-> width, height |-> height,
   spans |-> spans]

ScannedPage(ocr) ==
  [native |-> <<>>, ocr |-> ocr, width |-> 612, height |-> 792,
   spans |-> <<>>]

PageKinds ==
  { TextPage(<<"body", "purchase order", "purchase order", "purchase order",
               "purchase order">>, 612, 792, Spans("Helvetica", 10, 5)),
    TextPage(<<"page 1 of 2", "body", "purchase order">>,
             612, 792, Spans("Helvetica", 10, 5)),
    TextPage(<<"body">>, 612, 792, Spans("Helvetica", 10, 5)),
    TextPage(<<"body">>, 612, 792, Spans("Courier", 13, 5)),
    TextPage(<<"body", "routing sheet">>, 612, 792, Spans("Helvetica", 10, 5)),
    TextPage(<<"body", "routing sheet">>, 612, 792, Spans("Courier", 13, 5)),
    TextPage(<<"body", "routing sheet", "operation 10">>,
             792, 612, Spans("Courier", 13, 2)),
    ScannedPage(OcrFailed),
    ScannedPage(<<"routing sheet">>),
    ScannedPage(<<"page l of 2", "purchase order">>) }

Documents ==
  UNION {[1..n -> PageKinds] : n \in 1..MaxPages}

(***************************************************************************)
(* Page Text Provider.  Page numbers are 0-based as in the source; page    *)
(* page_num of a document is doc[page_num + 1].                            *)
(***************************************************************************)
ocr_single_page(doc, page_num) ==
  IF page_num >= Len(doc) THEN <<>>
  ELSE IF doc[page_num + 1].ocr = OcrFailed THEN <<>>
  ELSE doc[page_num + 1].ocr

extract_text_with_ocr_fallback(doc, page_num) ==
  IF page_num < Len(doc)
  THEN IF StripLen(doc[page_num + 1].native) > 50
       THEN doc[page_num + 1].native
       ELSE ocr_single_page(doc, page_num)
  ELSE <<>>

(***************************************************************************)
(* Page-Count Indicator Detector.                                          *)
(***************************************************************************)
\* Group 1 of the first pattern of the list that matches, else None.
RECURSIVE FirstMatch(_, _)
FirstMatch(patterns, text) ==
  IF patterns = <<>> THEN None
  ELSE LET found == Search(Head(patterns), text)
       IN  IF found # None THEN found ELSE FirstMatch(Tail(patterns), text)

detect_po_length_from_page_indicators(doc) ==
  LET first_page_text == extract_text_with_ocr_fallback(doc, 0)
      standard == FirstMatch(page_patterns, first_page_text)
  IN  IF first_page_text = <<>> THEN None
      ELSE IF standard # None THEN standard
      ELSE FirstMatch(ocr_page_patterns, first_page_text)

(***************************************************************************)
(* DetectionResult and result lists.                                       *)
(***************************************************************************)
DetectionResult(page_num, confidence, method) ==
  [page_num |-> page_num, confidence |-> confidence, method |-> method]

RECURSIVE Concat(_)
Concat(ss) == IF ss = <<>> THEN <<>> ELSE Head(ss) \o Concat(Tail(ss))

(***************************************************************************)
(* Method 1: text patterns.                                                *)
(***************************************************************************)
Weight(strength) ==
  CASE strength = "very_strong" -> Tenth(5)
    [] strength = "strong"      -> Tenth(3)
    [] strength = "medium"      -> Tenth(2)
    [] strength = "weak"        -> Tenth(1)

AllRouterPatterns ==
  UNION {Range(router_patterns[Strengths[k]]) : k \in DOMAIN Strengths}

\* The keys of pattern_counts: the router patterns with at least one match.
pattern_counts(text) == {p \in AllRouterPatterns : FindAll(p, text) > 0}

po_indicators(text) == FindAllSum(po_patterns, text)

\* The (strength, pattern) pairs in the order the nested loops visit them.
RouterPatternList ==
  Concat([k \in DOMAIN Strengths |->
            [i \in DOMAIN router_patterns[Strengths[k]] |->
               [strength |-> Strengths[k],
                pattern |-> router_patterns[Strengths[k]][i]]]])

\* confidence += matches * weight, pattern after pattern.
RECURSIVE PatternConfidence(_, _, _)
PatternConfidence(confidence, patterns, text) ==
  IF patterns = <<>> THEN confidence
  ELSE LET matches == FindAll(Head(patterns).pattern, text)
       IN  PatternConfidence(
             IF matches > 0
             THEN FAdd(confidence, FMul(matches, Weight(Head(patterns).strength)))
             ELSE confidence,
             Tail(patterns), text)

\* The confidence of a page of text before the threshold and the cap.
TextConfidence(text) ==
  LET matched == PatternConfidence(Zero, RouterPatternList, text)
      penalised == IF po_indicators(text) > 3
                   THEN FSub(matched, Tenth(2)) ELSE matched
  IN  IF Cardinality(pattern_counts(text)) > 2
      THEN FAdd(penalised, Tenth(1)) ELSE penalised

\* The results appended for one page: none or one.
TextPageResults(doc, page_num) ==
  LET text == extract_text_with_ocr_fallback(doc, page_num)
      confidence == TextConfidence(text)
  IN  IF text = <<>> THEN <<>>
      ELSE IF FLess(Tenth(3), confidence)
           THEN <<DetectionResult(page_num, FMin(confidence, One),
                                  "text_patterns")>>
           ELSE <<>>

\* Variant: the loop ends at the first page without text (break for
\* continue).
detect_by_text_patterns_break(doc) ==
  LET empty == {i \in 1..Len(doc) :
                  extract_text_with_ocr_fallback(doc, i - 1) = <<>>}
      last == IF empty = {} THEN Len(doc)
              ELSE (CHOOSE i \in empty : \A j \in empty : i <= j) - 1
  IN  Concat([i \in 1..last |-> TextPageResults(doc, i - 1)])

detect_by_text_patterns(doc) ==
  Concat([i \in 1..Len(doc) |-> TextPageResults(doc, i - 1)])

\* Lines 216-276 when an exception is raised while page k is analysed: the
\* handler of line 273 is outside the loop, and the results appended for the
\* pages before k are returned.
text_patterns_raising(doc, k) ==
  Concat([i \in 1..k |-> TextPageResults(doc, i - 1)])

(***************************************************************************)
(* Method 2: layout analysis.  avg_font_size is kept as the pair           *)
(* (sum of sizes, number of spans) and compared by cross-multiplication.   *)
(* In every page of PageKinds one font is strictly the most frequent, so   *)
(* max(set(fonts), key=fonts.count) does not depend on the set's order.    *)
(***************************************************************************)
FontCount(spans, font) == Cardinality({i \in DOMAIN spans : spans[i].font = font})

page_info(page) ==
  [orientation |-> IF page.width > page.height THEN "landscape" ELSE "portrait",
   has_text_blocks |-> page.spans # <<>>,
   dominant_font |->
     IF page.spans = <<>> THEN ""
     ELSE CHOOSE f \in {page.spans[i].font : i \in DOMAIN page.spans} :
            \A g \in {page.spans[i].font : i \in DOMAIN page.spans} :
               FontCount(page.spans, g) <= FontCount(page.spans, f),
   size_sum |-> SumSeq([i \in DOMAIN page.spans |-> page.spans[i].size]),
   text_block_count |-> Len(page.spans)]

\* confidence += ... for each layout change found, in the order of the code.
LayoutConfidence(prev, cur) ==
  FSumFrom(Zero,
       (IF cur.orientation # prev.orientation THEN <<Tenth(6)>> ELSE <<>>)
    \o (IF /\ cur.has_text_blocks /\ prev.has_text_blocks
           /\ Abs(cur.size_sum * prev.text_block_count
                  - prev.size_sum * cur.text_block_count)
                > 2 * cur.text_block_count * prev.text_block_count
        THEN <<Tenth(4)>> ELSE <<>>)
    \o (IF /\ cur.dominant_font # prev.dominant_font
           /\ cur.dominant_font # "" /\ prev.dominant_font # ""
        THEN <<Tenth(3)>> ELSE <<>>)
    \o (IF /\ cur.has_text_blocks /\ prev.has_text_blocks
           /\ 10 * (cur.text_block_count - prev.text_block_count)
                < (0 - 4) * Max(prev.text_block_count, 1)
        THEN <<Tenth(3)>> ELSE <<>>))

\* Variant: the confidence is reported without the cap at 1.0.
LayoutPageResultsUncapped(doc, page_num) ==
  LET confidence ==
        IF page_num = 0 THEN Zero
        ELSE LayoutConfidence(page_info(doc[page_num]), page_info(doc[page_num + 1]))
  IN  IF FLess(Tenth(4), confidence)
      THEN <<DetectionResult(page_num, confidence, "layout_analysis")>>
      ELSE <<>>

\* Variant: prev_page_info starts as the layout of an empty portrait page
\* instead of None, so that the first page is scored as well.
LayoutPageResultsFromBlank(doc, page_num) ==
  LET blank == [orientation |-> "portrait", has_text_blocks |-> FALSE,
                dominant_font |-> "", size_sum |-> 0, text_block_count |-> 0]
      confidence ==
        LayoutConfidence(IF page_num = 0 THEN blank
                         ELSE page_info(doc[page_num]),
                         page_info(doc[page_num + 1]))
  IN  IF FLess(Tenth(4), confidence)
      THEN <<DetectionResult(page_num, FMin(confidence, One), "layout_analysis")>>
      ELSE <<>>

LayoutPageResults(doc, page_num) ==
  LET confidence ==
        IF page_num = 0 THEN Zero
        ELSE LayoutConfidence(page_info(doc[page_num]), page_info(doc[page_num + 1]))
  IN  IF FLess(Tenth(4), confidence)
      THEN <<DetectionResult(page_num, FMin(confidence, One), "layout_analysis")>>
      ELSE <<>>

detect_by_layout_analysis(doc) ==
  Concat([i \in 1..Len(doc) |-> LayoutPageResults(doc, i - 1)])

\* Lines 283-368 when an exception is raised while page k is analysed (its
\* text blocks cannot be read, say): the handler of line 365 is outside the
\* loop.
layout_analysis_raising(doc, k) ==
  Concat([i \in 1..k |-> LayoutPageResults(doc, i - 1)])

(***************************************************************************)
(* Method 3: content transition.                                           *)
(***************************************************************************)
RouterWeight(strength) ==
  CASE strength = "very_strong" -> 4
    [] strength = "strong"      -> 3
    [] strength = "medium"      -> 2
    [] strength = "weak"        -> 1

content_score(text) ==
  [po_content |-> FindAllSum(po_patterns, text),
   router_content |->
     SumSeq([k \in DOMAIN Strengths |->
               FindAllSum(router_patterns[Strengths[k]], text)
                 * RouterWeight(Strengths[k])]),
   numeric_ops |-> FeatureCount("numeric_ops", text),
   time_references |-> FeatureCount("time_references", text),
   machine_references |-> FeatureCount("machine_references", text),
   measurements |-> FeatureCount("measurements", text)]

page_contents(doc) ==
  [i \in 1..Len(doc) |-> content_score(extract_text_with_ocr_fallback(doc, i - 1))]

TransitionConfidence(prev_content, curr_content) ==
  LET po_drop == prev_content.po_content - curr_content.po_content
      router_rise == curr_content.router_content - prev_content.router_content
  IN  FSumFrom(Zero,
           (IF po_drop > 2 /\ router_rise > 3 THEN <<Tenth(7)>> ELSE <<>>)
        \o (IF curr_content.numeric_ops > prev_content.numeric_ops + 1
            THEN <<Tenth(3)>> ELSE <<>>)
        \o (IF curr_content.time_references > prev_content.time_references
            THEN <<Tenth(2)>> ELSE <<>>)
        \o (IF curr_content.machine_references > prev_content.machine_references
            THEN <<Tenth(2)>> ELSE <<>>)
        \o (IF curr_content.measurements > prev_content.measurements
            THEN <<Tenth(1)>> ELSE <<>>))

\* Variant: the pair is reported under the 1-based number of its later page.
ContentPairResultsOneBased(contents, i) ==
  LET confidence == TransitionConfidence(contents[i], contents[i + 1])
  IN  IF FLess(Tenth(5), confidence)
      THEN <<DetectionResult(i + 1, FMin(confidence, One), "content_transition")>>
      ELSE <<>>

\* Variant: the pair is reported under the number of its earlier page.
ContentPairResultsEarlier(contents, i) ==
  LET confidence == TransitionConfidence(contents[i], contents[i + 1])
  IN  IF FLess(Tenth(5), confidence)
      THEN <<DetectionResult(i - 1, FMin(confidence, One), "content_transition")>>
      ELSE <<>>

\* The results appended for the pair (i-1, i) of 0-based pages, 1 <= i;
\* contents[i + 1] is the content_score of 0-based page i.
ContentPairResults(contents, i) ==
  LET confidence == TransitionConfidence(contents[i], contents[i + 1])
  IN  IF FLess(Tenth(5), confidence)
      THEN <<DetectionResult(i, FMin(confidence, One), "content_transition")>>
      ELSE <<>>

detect_by_content_transition(doc) ==
  LET contents == page_contents(doc)
  IN  Concat([i \in 1..(Len(contents) - 1) |-> ContentPairResults(contents, i)])

\* Lines 375-452 when an exception is raised in the loop over the pages
\* (lines 382-404, before any result exists) or in the loop over the pairs
\* (lines 407-446) at the pair of pages k - 1 and k: the handler of line 449
\* is outside both loops.
content_transition_raising(doc, k, loop) ==
  LET contents == page_contents(doc)
  IN  IF loop = "pages" THEN <<>>
      ELSE Concat([i \in 1..(k - 1) |-> ContentPairResults(contents, i)])

(***************************************************************************)
(* Aggregation of find_optimal_split_point.                                *)
(***************************************************************************)
\* The keys of page_scores in insertion order: the page numbers of
\* all_results in the order of their first occurrence.
RECURSIVE PageOrder(_, _)
PageOrder(all_results, seen) ==
  IF all_results = <<>> THEN <<>>
  ELSE IF Head(all_results).page_num \in seen
       THEN PageOrder(Tail(all_results), seen)
       ELSE <<Head(all_results).page_num>>
              \o PageOrder(Tail(all_results),
                           seen \cup {Head(all_results).page_num})

\* Variant: the confidence of a result replaces the total (= for +=).
page_scores_overwritten(all_results, page_num) ==
  LET mine == SelectSeq(all_results, LAMBDA r : r.page_num = page_num)
  IN  [total_confidence |-> mine[Len(mine)].confidence,
       method_count |-> Len(mine),
       methods |-> [i \in DOMAIN mine |-> mine[i].method]]

\* page_scores[page_num] after the grouping loop.
page_scores(all_results, page_num) ==
  LET mine == SelectSeq(all_results, LAMBDA r : r.page_num = page_num)
  IN  [total_confidence |-> FSumFrom(Zero, [i \in DOMAIN mine |-> mine[i].confidence]),
       method_count |-> Len(mine),
       methods |-> [i \in DOMAIN mine |-> mine[i].method]]

\* Variant: the sum is capped at 1.0.
final_confidence_clamped(score_info) ==
  LET avg_confidence == FDiv(score_info.total_confidence, score_info.method_count)
      method_bonus == FMul(Cardinality(Range(score_info.methods)) - 1, Tenth(1))
  IN  FMin(FAdd(avg_confidence, method_bonus), One)

final_confidence(score_info) ==
  LET avg_confidence == FDiv(score_info.total_confidence, score_info.method_count)
      method_bonus == FMul(Cardinality(Range(score_info.methods)) - 1, Tenth(1))
  IN  FAdd(avg_confidence, method_bonus)

\* The loop over page_scores.items(): best is the pair (best_page,
\* best_confidence) so far, order the keys still to visit.
RECURSIVE BestCandidate(_, _, _)

\* Variant: a later page with an equal confidence replaces the best one.
BestCandidateLast(all_results, order, best) ==
  IF order = <<>> THEN best
  ELSE LET fc == final_confidence(page_scores(all_results, Head(order)))
       IN  BestCandidate(all_results, Tail(order),
                         IF FLeq(best.confidence, fc)
                         THEN [page |-> Head(order), confidence |-> fc]
                         ELSE best)

BestCandidate(all_results, order, best) ==
  IF order = <<>> THEN best
  ELSE LET fc == final_confidence(page_scores(all_results, Head(order)))
       IN  BestCandidate(all_results, Tail(order),
                         IF FLess(best.confidence, fc)
                         THEN [page |-> Head(order), confidence |-> fc]
                         ELSE best)

\* Variant: without the early return, best_page starting at the first page.
AggregateFromFirstPage(all_results) ==
  BestCandidate(all_results, PageOrder(all_results, {}),
                [page |-> 0, confidence |-> Zero])

\* Variant: best_confidence starts at the default threshold 0.7, so that a
\* page has to score above it to be chosen.
AggregateAboveThreshold(all_results) ==
  IF all_results = <<>> THEN [page |-> None, confidence |-> Zero]
  ELSE BestCandidate(all_results, PageOrder(all_results, {}),
                     [page |-> None, confidence |-> Tenth(7)])

\* Lines 488-533: from the concatenated results to (best_page, best_confidence).
Aggregate(all_results) ==
  IF all_results = <<>> THEN [page |-> None, confidence |-> Zero]
  ELSE BestCandidate(all_results, PageOrder(all_results, {}),
                     [page |-> None, confidence |-> Zero])

\* Variant: the 1-based number of the first router page is returned.
IndicatorDecisionOneBased(po_len, total_pages) ==
  IF total_pages > po_len
  THEN [page |-> po_len + 1, confidence |-> One]
  ELSE [page |-> None, confidence |-> One]

\* Variant: a document of exactly po_len pages is split as well.
IndicatorDecisionInclusive(po_len, total_pages) ==
  IF total_pages >= po_len
  THEN [page |-> po_len, confidence |-> One]
  ELSE [page |-> None, confidence |-> One]

\* Variant: the index of the last PO page is returned.
IndicatorDecisionLastPOPage(po_len, total_pages) ==
  IF total_pages > po_len
  THEN [page |-> po_len - 1, confidence |-> One]
  ELSE [page |-> None, confidence |-> One]

\* Lines 465-478: the decision taken from a page indicator.
IndicatorDecision(po_len, total_pages) ==
  IF total_pages > po_len
  THEN [page |-> po_len, confidence |-> One]
  ELSE [page |-> None, confidence |-> One]

\* find_optimal_split_point as a function of the document.
find_optimal_split_point(d) ==
  LET po_len == detect_po_length_from_page_indicators(d)
  IN
  IF po_len # None
  THEN IndicatorDecision(po_len, Len(d))
  ELSE Aggregate(detect_by_text_patterns(d) \o detect_by_layout_analysis(d)
                   \o detect_by_content_transition(d))

(***************************************************************************)
(* Split execution.                                                        *)
(***************************************************************************)
\* The thresholds callers pass: the default of split_pdf_enhanced and the
\* confidence levels of PDFSplittingTester.create_test_report.
Thresholds == {Tenth(3), Tenth(5), Tenth(7), Tenth(8), Tenth(9)}

\* Variant: the comparison is the wrong way round.
NoSplitConditionReversed(sp, conf, min_conf) ==
  sp = None \/ FLess(min_conf, conf)

\* Variant: a confidence equal to the threshold does not split either.
NoSplitConditionInclusive(sp, conf, min_conf) ==
  sp = None \/ FLeq(conf, min_conf)

\* Line 547: the condition of the "treat entire document as PO" branch.
NoSplitCondition(sp, conf, min_conf) == sp = None \/ FLess(conf, min_conf)

\* Variant: to_page is taken as an exclusive bound.
insert_pdf_exclusive(from_page, to_page) ==
  [i \in 1..(to_page - from_page) |-> from_page + i - 1]

\* fitz insert_pdf(doc, from_page, to_page): the pages from_page..to_page.
insert_pdf(from_page, to_page) ==
  [i \in 1..(to_page - from_page + 1) |-> from_page + i - 1]

\* PDFSplittingTester.create_test_report, line 123: whether the tester
\* expects a split at threshold t.
would_split(sp, conf, t) == sp # None /\ FLeq(t, conf)

NoFile == [exists |-> FALSE, pages |-> <<>>]
File(pages) == [exists |-> TRUE, pages |-> pages]

VARIABLES
  doc,              \* the input document (a sequence of pages)
  pc,               \* position in split_pdf_enhanced / find_optimal_split_point
  po_length,        \* result of detect_po_length_from_page_indicators
  text_results, layout_results, content_results,
  split_point,      \* first component returned by find_optimal_split_point
  confidence,       \* second component returned by find_optimal_split_point
  min_confidence,   \* the caller's threshold
  decision,         \* branch taken at line 547: "NO_SPLIT" or "SPLIT"
  po_pdf, router_pdf,   \* the two output files
  success,          \* first component returned by split_pdf_enhanced
  fault,            \* the detector and page at which an exception is raised
  ppc,              \* per detector: position in its pass over the pages
  page_num,         \* per detector: the loop variable page_num
  texts,            \* per detector: the texts the provider has returned
  temp_files,       \* the temp_page_<n> files in the input's directory
  raised,           \* per detector: exception that left the text provider
  failed,           \* per detector: how the provider's last call failed
  concurrent,       \* whether the detectors' passes run side by side
  spc,              \* position in the patched split_po_router
  original_called,  \* whether the original splitting method was invoked
  original_result,  \* what the original splitting method returned
  returned_value,   \* what split_po_router returned
  rpc,              \* position in UnifiedOCRPipeline.run
  pdf_files,        \* the PDFs found in the incoming directory
  file_index,       \* number of iterations of the loop of run so far
  attempts,         \* per PDF: number of calls of process_single_file
  processed_count, error_count,   \* the counters of run
  calls,            \* number of calls of find_optimal_split_point so far
  first_texts       \* the texts the provider returned during the first call

\* The state of split_pdf_enhanced and find_optimal_split_point.
mainVars == <<doc, pc, po_length, text_results, layout_results,
              content_results, split_point, confidence, min_confidence,
              decision, po_pdf, router_pdf, success>>

\* The state of the passes of the detectors over the Page Text Provider.
passVars == <<ppc, page_num, texts, temp_files, raised, failed, concurrent>>

\* The state of the patched split_po_router of the pipeline.
patchVars == <<spc, original_called, original_result, returned_value>>

\* The state of UnifiedOCRPipeline.run.
batchVars == <<rpc, pdf_files, file_index, attempts, processed_count,
               error_count>>

\* What is kept from one call of find_optimal_split_point to the next.
callVars == <<calls, first_texts>>

extVars == <<patchVars, batchVars, callVars>>

vars == <<mainVars, fault, passVars, extVars>>

\* No exception is raised in any detector.
NoFault == [method |-> "none", page |-> None, loop |-> "none"]

\* The detectors that read pages through extract_text_with_ocr_fallback.
Providers == {"text_patterns", "content_transition"}

\* The passes of the detectors are not followed page by page.
PassesIdle ==
  /\ ppc = [d \in Providers |-> "idle"]
  /\ page_num = [d \in Providers |-> 0]
  /\ texts = [d \in Providers |-> <<>>]
  /\ temp_files = {}
  /\ raised = [d \in Providers |-> "none"]
  /\ failed = [d \in Providers |-> "none"]
  /\ concurrent = FALSE

\* split_pdf_enhanced is called directly, outside a batch, and
\* find_optimal_split_point runs for the first time.
Standalone ==
  /\ spc = "idle"
  /\ original_called = FALSE
  /\ original_result = "pending"
  /\ returned_value = "pending"
  /\ rpc = "idle"
  /\ pdf_files = <<>>
  /\ file_index = 0
  /\ attempts = <<>>
  /\ processed_count = 0
  /\ error_count = 0
  /\ calls = 1
  /\ first_texts = [d \in Providers |-> <<>>]

\* split_pdf_enhanced has been called and nothing has run yet.
Called ==
  /\ pc = "start"
  /\ po_length = None
  /\ text_results = <<>>
  /\ layout_results = <<>>
  /\ content_results = <<>>
  /\ split_point = None
  /\ confidence = Zero
  /\ min_confidence = Zero
  /\ decision = "pending"
  /\ po_pdf = NoFile
  /\ router_pdf = NoFile
  /\ success = "pending"

Init ==
  /\ fault = NoFault
  /\ Standalone
  /\ PassesIdle
  /\ doc \in Documents
  /\ pc = "start"
  /\ po_length = None
  /\ text_results = <<>>
  /\ layout_results = <<>>
  /\ content_results = <<>>
  /\ split_point = None
  /\ confidence = Zero
  /\ min_confidence = Zero
  /\ decision = "pending"
  /\ po_pdf = NoFile
  /\ router_pdf = NoFile
  /\ success = "pending"

\* Line 463.
CheckPageIndicator ==
  /\ pc = "start"
  /\ po_length' = detect_po_length_from_page_indicators(doc)
  /\ pc' = "indicator_checked"
  /\ UNCHANGED <<fault, passVars, extVars>>
  /\ UNCHANGED <<doc, text_results, layout_results, content_results,
                 split_point, confidence, min_confidence, decision, po_pdf,
                 router_pdf, success>>

\* Lines 465-478.
UsePageIndicator ==
  /\ pc = "indicator_checked"
  /\ po_length # None
  /\ split_point' = IndicatorDecision(po_length, Len(doc)).page
  /\ confidence' = IndicatorDecision(po_length, Len(doc)).confidence
  /\ pc' = "returned"
  /\ UNCHANGED <<fault, passVars, extVars>>
  /\ UNCHANGED <<doc, po_length, text_results, layout_results,
                 content_results, min_confidence, decision, po_pdf,
                 router_pdf, success>>

\* Variant: the text detector runs whatever the indicator check found.
RunTextPatternsAlways ==
  /\ pc = "indicator_checked"
  /\ text_results' = detect_by_text_patterns(doc)
  /\ pc' = "text_done"
  /\ UNCHANGED <<fault, passVars, extVars>>
  /\ UNCHANGED <<doc, po_length, layout_results, content_results,
                 split_point, confidence, min_confidence, decision, po_pdf,
                 router_pdf, success>>

\* Line 484.
RunTextPatterns ==
  /\ pc = "indicator_checked"
  /\ po_length = None
  /\ text_results' = IF fault.method = "text_patterns"
                     THEN text_patterns_raising(doc, fault.page)
                     ELSE detect_by_text_patterns(doc)
  /\ pc' = "text_done"
  /\ UNCHANGED <<fault, passVars, extVars>>
  /\ UNCHANGED <<doc, po_length, layout_results, content_results,
                 split_point, confidence, min_confidence, decision, po_pdf,
                 router_pdf, success>>

\* Line 485.
RunLayoutAnalysis ==
  /\ pc = "text_done"
  /\ layout_results' = IF fault.method = "layout_analysis"
                       THEN layout_analysis_raising(doc, fault.page)
                       ELSE detect_by_layout_analysis(doc)
  /\ pc' = "layout_done"
  /\ UNCHANGED <<fault, passVars, extVars>>
  /\ UNCHANGED <<doc, po_length, text_results, content_results,
                 split_point, confidence, min_confidence, decision, po_pdf,
                 router_pdf, success>>

\* Line 486.
RunContentTransition ==
  /\ pc = "layout_done"
  /\ content_results' =
       IF fault.method = "content_transition"
       THEN content_transition_raising(doc, fault.page, fault.loop)
       ELSE detect_by_content_transition(doc)
  /\ pc' = "content_done"
  /\ UNCHANGED <<fault, passVars, extVars>>
  /\ UNCHANGED <<doc, po_length, text_results, layout_results,
                 split_point, confidence, min_confidence, decision, po_pdf,
                 router_pdf, success>>

\* Lines 488-533.
AggregateResults ==
  /\ pc = "content_done"
  /\ LET best == Aggregate(text_results \o layout_results \o content_results)
     IN  /\ split_point' = best.page
         /\ confidence' = best.confidence
  /\ pc' = "returned"
  /\ UNCHANGED <<fault, passVars, extVars>>
  /\ UNCHANGED <<doc, po_length, text_results, layout_results,
                 content_results, min_confidence, decision, po_pdf,
                 router_pdf, success>>

\* Line 547 for a call with threshold t.  The parameter is not read before
\* this line, so the model draws it here.
ChooseBranch ==
  /\ pc = "returned"
  /\ \E t \in Thresholds :
       /\ min_confidence' = t
       /\ decision' = IF NoSplitCondition(split_point, confidence, t)
                      THEN "NO_SPLIT" ELSE "SPLIT"
  /\ pc' = IF decision' = "NO_SPLIT" THEN "save_whole" ELSE "save_po"
  /\ UNCHANGED <<fault, passVars, extVars>>
  /\ UNCHANGED <<doc, po_length, text_results, layout_results,
                 content_results, split_point, confidence, po_pdf,
                 router_pdf, success>>

\* Lines 549-557.
SaveWholeAsPO ==
  /\ pc = "save_whole"
  /\ po_pdf' = File(insert_pdf(0, Len(doc) - 1))
  /\ success' = "true"
  /\ pc' = "done"
  /\ UNCHANGED <<fault, passVars, extVars>>
  /\ UNCHANGED <<doc, po_length, text_results, layout_results,
                 content_results, split_point, confidence, min_confidence,
                 decision, router_pdf>>

\* Variant: the PO section is saved without the test of line 564.
SavePOSectionUnguarded ==
  /\ pc = "save_po"
  /\ po_pdf' = File(insert_pdf(0, split_point - 1))
  /\ pc' = "save_router"
  /\ UNCHANGED <<fault, passVars, extVars>>
  /\ UNCHANGED <<doc, po_length, text_results, layout_results,
                 content_results, split_point, confidence, min_confidence,
                 decision, router_pdf, success>>

\* Lines 564-567.
SavePOSection ==
  /\ pc = "save_po"
  /\ po_pdf' = IF split_point > 0
               THEN File(insert_pdf(0, split_point - 1))
               ELSE po_pdf
  /\ pc' = "save_router"
  /\ UNCHANGED <<fault, passVars, extVars>>
  /\ UNCHANGED <<doc, po_length, text_results, layout_results,
                 content_results, split_point, confidence, min_confidence,
                 decision, router_pdf, success>>

\* Lines 570-581.
SaveRouterSection ==
  /\ pc = "save_router"
  /\ router_pdf' = IF split_point < Len(doc)
                   THEN File(insert_pdf(split_point, Len(doc) - 1))
                   ELSE router_pdf
  /\ success' = "true"
  /\ pc' = "done"
  /\ UNCHANGED <<fault, passVars, extVars>>
  /\ UNCHANGED <<doc, po_length, text_results, layout_results,
                 content_results, split_point, confidence, min_confidence,
                 decision, po_pdf>>

\* Lines 583-586: a save raises (disk, permissions); the file being written
\* is not created and what was saved before stays.
SaveFails ==
  /\ pc \in {"save_whole", "save_po", "save_router"}
  /\ pc = "save_po" => split_point > 0
  /\ pc = "save_router" => split_point < Len(doc)
  /\ success' = "false"
  /\ pc' = "done"
  /\ UNCHANGED <<fault, passVars, extVars>>
  /\ UNCHANGED <<doc, po_length, text_results, layout_results,
                 content_results, split_point, confidence, min_confidence,
                 decision, po_pdf, router_pdf>>

Next ==
  \/ CheckPageIndicator
  \/ UsePageIndicator
  \/ RunTextPatterns
  \/ RunLayoutAnalysis
  \/ RunContentTransition
  \/ AggregateResults
  \/ ChooseBranch
  \/ SaveWholeAsPO
  \/ SavePOSection
  \/ SaveRouterSection
  \/ SaveFails

Spec == Init /\ [][Next]_vars

(***************************************************************************)
(* Calls in which a detector raises an exception while it analyses a page. *)
(***************************************************************************)
Methods == {"text_patterns", "layout_analysis", "content_transition"}

\* The places at which a detector can raise on document d: in its loop over
\* the pages, or, for the content detector, in its loop over the pairs.
Faults(d) ==
  {[method |-> m, page |-> k, loop |-> "pages"] :
     m \in Methods, k \in 0..(Len(d) - 1)}
  \cup {[method |-> "content_transition", page |-> k, loop |-> "pairs"] :
          k \in 1..(Len(d) - 1)}

FaultPageKinds ==
  { TextPage(<<"body", "purchase order", "purchase order", "purchase order",
               "purchase order">>, 612, 792, Spans("Helvetica", 10, 5)),
    TextPage(<<"page 1 of 2", "body", "purchase order">>,
             612, 792, Spans("Helvetica", 10, 5)),
    TextPage(<<"body">>, 612, 792, Spans("Helvetica", 10, 5)),
    TextPage(<<"body", "routing sheet">>, 612, 792, Spans("Courier", 13, 5)),
    TextPage(<<"body", "routing sheet", "operation 10">>,
             792, 612, Spans("Courier", 13, 2)),
    ScannedPage(<<"routing sheet">>) }

FaultDocuments ==
  UNION {[1..n -> FaultPageKinds] : n \in 1..MaxPages}

FaultInit ==
  /\ Called
  /\ Standalone
  /\ PassesIdle
  /\ doc \in FaultDocuments
  /\ fault \in Faults(doc)

FaultSpec == FaultInit /\ [][Next]_vars

(***************************************************************************)
(* Calls on four-page documents of portrait purchase-order pages and       *)
(* landscape routing pages.                                                *)
(***************************************************************************)
POPage(n) ==
  TextPage(<<"body">> \o [i \in 1..n |-> "purchase order"],
           612, 792, Spans("Helvetica", 10, 5))

RoutingPage(spans) ==
  TextPage(<<"body", "manufacturing routing", "operation sequence">>,
           792, 612, spans)

FourPageKinds ==
  { POPage(1), POPage(4),
    TextPage(<<"page 1 of 2", "body", "purchase order">>,
             612, 792, Spans("Helvetica", 10, 5)),
    RoutingPage(Spans("Helvetica", 10, 5)),
    RoutingPage(Spans("Helvetica", 10, 2)),
    RoutingPage(Spans("Courier", 13, 5)) }

FourPageDocuments == [1..4 -> FourPageKinds]

FourPageInit ==
  /\ Called
  /\ Standalone
  /\ PassesIdle
  /\ fault = NoFault
  /\ doc \in FourPageDocuments

FourPageSpec == FourPageInit /\ [][Next]_vars

(***************************************************************************)
(* Calls on documents in which pages tie for the best score and in which   *)
(* all three detectors report the same page.                               *)
(***************************************************************************)
OrderPageKinds ==
  { POPage(4),
    TextPage(<<"page 1 of 2", "body", "purchase order">>,
             612, 792, Spans("Helvetica", 10, 5)),
    TextPage(<<"body">>, 612, 792, Spans("Courier", 13, 5)),
    TextPage(<<"body", "routing sheet">>, 612, 792, Spans("Courier", 13, 5)),
    TextPage(<<"body", "manufacturing routing", "operation sequence">>,
             612, 792, Spans("Courier", 13, 5)) }

OrderDocuments ==
  UNION {[1..n -> OrderPageKinds] : n \in 1..MaxPages}

OrderInit ==
  /\ Called
  /\ Standalone
  /\ PassesIdle
  /\ fault = NoFault
  /\ doc \in OrderDocuments

OrderSpec == OrderInit /\ [][Next]_vars

(***************************************************************************)
(* The passes of detect_by_text_patterns and detect_by_content_transition  *)
(* over the pages, followed step by step through                           *)
(* extract_text_with_ocr_fallback and ocr_single_page.  The temporary      *)
(* files live in the directory of the input; their names depend on the     *)
(* page number only.                                                       *)
(***************************************************************************)
\* Path(pdf_path).parent / f"temp_page_{page_num}.pdf"
temp_pdf(n) == <<n, ".pdf">>

\* temp_pdf.with_suffix('.ocr.pdf')
temp_ocr(n) == <<n, ".ocr.pdf">>

\* The exceptions the collaborators raise; all derive from Exception.
PythonExceptions == {"TimeoutExpired", "RuntimeError"}

\* Variant: only a failed subprocess is caught.
except_CalledProcessError(e) == e = "CalledProcessError"

\* Lines 126 and 174: except Exception.
except_Exception(e) == e \in PythonExceptions

\* The pages the passes are followed on: a page with native text, a scanned
\* page on which OCR fails and a scanned page that OCR reads.
PassPageKinds ==
  { TextPage(<<"body", "purchase order", "purchase order", "purchase order",
               "purchase order">>, 612, 792, Spans("Helvetica", 10, 5)),
    ScannedPage(OcrFailed),
    ScannedPage(<<"routing sheet">>) }

PassDocuments ==
  UNION {[1..n -> PassPageKinds] : n \in 1..MaxPages}

\* Lines 221-222 and 382-383: the provider returns text to the loop of
\* detector d, which goes on to the next page.
Return(d, text) ==
  /\ texts' = [texts EXCEPT ![d] = Append(@, text)]
  /\ page_num' = [page_num EXCEPT ![d] = @ + 1]
  /\ ppc' = [ppc EXCEPT ![d] = IF page_num[d] + 1 < Len(doc)
                               THEN "extract" ELSE "finished"]

\* Exception e is raised inside the provider while it reads a page for d:
\* the handler of the provider returns "", or e reaches the handler of the
\* detector (lines 273 and 449), which ends the pass.
Raise(d, e, mode) ==
  /\ failed' = [failed EXCEPT ![d] = mode]
  /\ IF except_Exception(e)
     THEN Return(d, <<>>) /\ UNCHANGED raised
     ELSE /\ raised' = [raised EXCEPT ![d] = e]
          /\ ppc' = [ppc EXCEPT ![d] = "aborted"]
          /\ UNCHANGED <<texts, page_num>>

\* Lines 484-486 run the detectors one after the other.
Turn(d) ==
  \/ concurrent
  \/ d = "text_patterns"
  \/ ppc["text_patterns"] \in {"finished", "aborted"}

\* Lines 108-124: native extraction.
ExtractNative(d) ==
  /\ ppc[d] = "extract"
  /\ LET page == doc[page_num[d] + 1]
     IN  \/ /\ StripLen(page.native) > 50
            /\ Return(d, page.native)
            /\ failed' = [failed EXCEPT ![d] = "none"]
            /\ UNCHANGED raised
         \/ /\ StripLen(page.native) <= 50
            /\ ppc' = [ppc EXCEPT ![d] = "ocr_create"]
            /\ UNCHANGED <<texts, page_num, raised, failed>>
         \/ /\ page.native = <<>> /\ page.ocr = OcrFailed
            /\ Raise(d, "RuntimeError", "native")
  /\ UNCHANGED temp_files

\* Lines 136-147: the page is saved as temp_page_<n>.pdf.
CreateTempPage(d) ==
  /\ ppc[d] = "ocr_create"
  /\ temp_files' = temp_files \cup {temp_pdf(page_num[d])}
  /\ ppc' = [ppc EXCEPT ![d] = "ocr_run"]
  /\ UNCHANGED <<texts, page_num, raised, failed>>

\* Lines 149-158: ocrmypdf reads temp_page_<n>.pdf and writes
\* temp_page_<n>.ocr.pdf.  On a page where OCR fails it exits with a non-zero
\* status, or runs into the timeout (having written its output or not), or
\* leaves an output that cannot be read.
RunOcr(d) ==
  /\ ppc[d] = "ocr_run"
  /\ LET n == page_num[d]
         page == doc[n + 1]
     IN  \/ /\ temp_pdf(n) \notin temp_files
            /\ ppc' = [ppc EXCEPT ![d] = "ocr_failed"]
            /\ UNCHANGED <<texts, page_num, raised, failed, temp_files>>
         \/ /\ temp_pdf(n) \in temp_files
            /\ page.ocr # OcrFailed
            /\ temp_files' = temp_files \cup {temp_ocr(n)}
            /\ ppc' = [ppc EXCEPT ![d] = "ocr_read"]
            /\ UNCHANGED <<texts, page_num, raised, failed>>
         \/ /\ temp_pdf(n) \in temp_files
            /\ page.ocr = OcrFailed
            /\ \/ /\ ppc' = [ppc EXCEPT ![d] = "ocr_failed"]
                  /\ UNCHANGED <<texts, page_num, raised, failed, temp_files>>
               \/ /\ \E written \in BOOLEAN :
                       temp_files' = IF written
                                     THEN temp_files \cup {temp_ocr(n)}
                                     ELSE temp_files
                  /\ Raise(d, "TimeoutExpired", "timeout")
               \/ /\ temp_files' = temp_files \cup {temp_ocr(n)}
                  /\ ppc' = [ppc EXCEPT ![d] = "ocr_read"]
                  /\ UNCHANGED <<texts, page_num, raised, failed>>

\* Lines 159-161: the text of temp_page_<n>.ocr.pdf is read.
ReadOcrText(d) ==
  /\ ppc[d] = "ocr_read"
  /\ LET n == page_num[d]
         page == doc[n + 1]
     IN  \/ /\ temp_ocr(n) \in temp_files
            /\ page.ocr # OcrFailed
            /\ ppc' = [ppc EXCEPT ![d] = "ocr_cleanup"]
            /\ UNCHANGED <<texts, page_num, raised, failed>>
         \/ /\ temp_ocr(n) \notin temp_files \/ page.ocr = OcrFailed
            /\ Raise(d, "RuntimeError", "unreadable")
  /\ UNCHANGED temp_files

\* Lines 163-167 and 169-172: both files are unlinked and the text, or "",
\* is returned.
CleanupAndReturn(d) ==
  /\ ppc[d] \in {"ocr_cleanup", "ocr_failed"}
  /\ LET n == page_num[d]
     IN  /\ temp_files' = temp_files \ {temp_pdf(n), temp_ocr(n)}
         /\ Return(d, IF ppc[d] = "ocr_cleanup" THEN doc[n + 1].ocr ELSE <<>>)
         /\ failed' = [failed EXCEPT ![d] = IF ppc[d] = "ocr_cleanup"
                                            THEN "none" ELSE "nonzero"]
  /\ UNCHANGED raised

PassNext ==
  \E d \in Providers :
    /\ Turn(d)
    /\ \/ ExtractNative(d)
       \/ CreateTempPage(d)
       \/ RunOcr(d)
       \/ ReadOcrText(d)
       \/ CleanupAndReturn(d)
    /\ UNCHANGED <<mainVars, fault, concurrent, extVars>>

\* Both detectors are about to read their first page.
PassesStart(side_by_side) ==
  /\ Called
  /\ Standalone
  /\ fault = NoFault
  /\ doc \in PassDocuments
  /\ ppc = [d \in Providers |-> "extract"]
  /\ page_num = [d \in Providers |-> 0]
  /\ texts = [d \in Providers |-> <<>>]
  /\ temp_files = {}
  /\ raised = [d \in Providers |-> "none"]
  /\ failed = [d \in Providers |-> "none"]
  /\ concurrent = side_by_side

\* Lines 224-270 for the texts a pass of the text detector has read.
text_results_of(page_texts) ==
  Concat([i \in DOMAIN page_texts |->
            IF page_texts[i] = <<>> THEN <<>>
            ELSE IF FLess(Tenth(3), TextConfidence(page_texts[i]))
                 THEN <<DetectionResult(i - 1,
                                        FMin(TextConfidence(page_texts[i]), One),
                                        "text_patterns")>>
                 ELSE <<>>])

\* Lines 385-446 for the texts a pass of the content detector has read.
content_results_of(page_texts) ==
  LET contents == [i \in DOMAIN page_texts |-> content_score(page_texts[i])]
  IN  Concat([i \in 1..(Len(contents) - 1) |-> ContentPairResults(contents, i)])

\* The passes in the order of find_optimal_split_point.
PassInit == PassesStart(FALSE)

PassSpec == PassInit /\ [][PassNext]_vars

\* The passes running side by side, as two threads would run them.
ConcurrentInit == PassesStart(TRUE)

ConcurrentSpec == ConcurrentInit /\ [][PassNext]_vars

(***************************************************************************)
(* Calls on documents whose pages bring the scores of the text detector    *)
(* and of the content detector to their thresholds: router vocabulary      *)
(* worth 0.3 in several ways, and pairs of pages between which operation,  *)
(* time, machine and measurement mentions rise.                            *)
(***************************************************************************)
VocabularyPage(phrases) ==
  TextPage(<<"body">> \o phrases, 612, 792, Spans("Helvetica", 10, 5))

ScorePageKinds ==
  { POPage(4),
    TextPage(<<"page 1 of 2", "body", "purchase order">>,
             612, 792, Spans("Helvetica", 10, 5)),
    VocabularyPage(<<"operation sequence", "setup time">>),
    VocabularyPage(<<"operation 10", "operation 10", "setup time",
                     "machine center", "25 mm">>),
    VocabularyPage(<<"setup time", "machine center", "25 mm">>),
    VocabularyPage(<<"work instructions">>),
    VocabularyPage(<<"routing sheet", "routing sheet">>) }

ScoreDocuments ==
  UNION {[1..n -> ScorePageKinds] : n \in 1..MaxPages}

ScoreInit ==
  /\ Called
  /\ Standalone
  /\ PassesIdle
  /\ fault = NoFault
  /\ doc \in ScoreDocuments

ScoreSpec == ScoreInit /\ [][Next]_vars

(***************************************************************************)
(* Two successive calls of find_optimal_split_point on the same document.  *)
(* The second call starts with fresh locals (results = [] at lines 216 and *)
(* 375, page_contents = [] at line 379) and finds the directory of the     *)
(* input as the first call left it.                                        *)
(***************************************************************************)
AgainPageKinds ==
  PassPageKinds \cup {ScannedPage(<<"page l of 2", "purchase order">>)}

AgainDocuments ==
  UNION {[1..n -> AgainPageKinds] : n \in 1..MaxPages}

\* Lines 463-533 for the texts the provider returned during one call: the
\* page indicator is looked for in the text of the first page.
find_optimal_split_point_of(d, page_texts) ==
  LET first_page_text == page_texts["text_patterns"][1]
      standard == FirstMatch(page_patterns, first_page_text)
      po_len == IF first_page_text = <<>> THEN None
                ELSE IF standard # None THEN standard
                ELSE FirstMatch(ocr_page_patterns, first_page_text)
  IN  IF po_len # None
      THEN IndicatorDecision(po_len, Len(d))
      ELSE Aggregate(text_results_of(page_texts["text_patterns"])
                       \o detect_by_layout_analysis(d)
                       \o content_results_of(page_texts["content_transition"]))

\* Variant: the lists of the first call are still there when the second
\* call appends to them.
CallAgainKeepingLists ==
  /\ calls = 1
  /\ \A d \in Providers : ppc[d] = "finished"
  /\ calls' = calls + 1
  /\ first_texts' = texts
  /\ ppc' = [d \in Providers |-> "extract"]
  /\ page_num' = [d \in Providers |-> 0]
  /\ UNCHANGED <<texts, temp_files, raised, failed, concurrent>>
  /\ UNCHANGED <<mainVars, fault, patchVars, batchVars>>

\* The first call has returned and find_optimal_split_point is called again.
CallAgain ==
  /\ calls = 1
  /\ \A d \in Providers : ppc[d] = "finished"
  /\ calls' = calls + 1
  /\ first_texts' = texts
  /\ ppc' = [d \in Providers |-> "extract"]
  /\ page_num' = [d \in Providers |-> 0]
  /\ texts' = [d \in Providers |-> <<>>]
  /\ UNCHANGED <<temp_files, raised, failed, concurrent>>
  /\ UNCHANGED <<mainVars, fault, patchVars, batchVars>>

AgainNext ==
  \/ PassNext
  \/ CallAgain

AgainInit ==
  /\ Called
  /\ Standalone
  /\ fault = NoFault
  /\ doc \in AgainDocuments
  /\ ppc = [d \in Providers |-> "extract"]
  /\ page_num = [d \in Providers |-> 0]
  /\ texts = [d \in Providers |-> <<>>]
  /\ temp_files = {}
  /\ raised = [d \in Providers |-> "none"]
  /\ failed = [d \in Providers |-> "none"]
  /\ concurrent = FALSE

AgainSpec == AgainInit /\ [][AgainNext]_vars

(***************************************************************************)
(* The split_po_router that PipelineIntegrator.patch_main_pipeline and      *)
(* create_patched_pipeline write into the pipeline: it calls               *)
(* split_pdf_enhanced and keeps the original splitting method as fallback. *)
(***************************************************************************)
PatchPageKinds ==
  { TextPage(<<"body", "purchase order", "purchase order", "purchase order",
               "purchase order">>, 612, 792, Spans("Helvetica", 10, 5)),
    TextPage(<<"page 1 of 2", "body", "purchase order">>,
             612, 792, Spans("Helvetica", 10, 5)),
    TextPage(<<"body", "routing sheet">>, 612, 792, Spans("Courier", 13, 5)),
    ScannedPage(OcrFailed) }

PatchDocuments ==
  UNION {[1..n -> PatchPageKinds] : n \in 1..MaxPages}

\* split_pdf_enhanced has not been called.
NotCalled ==
  /\ pc = "not_called"
  /\ po_length = None
  /\ text_results = <<>>
  /\ layout_results = <<>>
  /\ content_results = <<>>
  /\ split_point = None
  /\ confidence = Zero
  /\ min_confidence = Zero
  /\ decision = "pending"
  /\ po_pdf = NoFile
  /\ router_pdf = NoFile
  /\ success = "pending"

\* What can happen before split_pdf_enhanced is called: the import of the
\* splitter fails, or float() rejects SPLIT_CONFIDENCE_THRESHOLD.
EnterOutcomes == {"ok", "ImportError", "ValueError"}

\* The two handlers of split_po_router: except ImportError and
\* except Exception.
except_ImportError_or_Exception(e) == e \in {"ImportError", "ValueError"}

\* The try block up to the call of split_pdf_enhanced.
EnterSplitPoRouter ==
  /\ spc = "called"
  /\ \E outcome \in EnterOutcomes :
       \/ /\ outcome = "ok"
          /\ spc' = "enhanced"
          /\ pc' = "start"
       \/ /\ outcome # "ok"
          /\ spc' = IF except_ImportError_or_Exception(outcome)
                    THEN "fallback" ELSE "raised"
          /\ pc' = pc
  /\ UNCHANGED <<doc, po_length, text_results, layout_results,
                 content_results, split_point, confidence, min_confidence,
                 decision, po_pdf, router_pdf, success>>
  /\ UNCHANGED <<original_called, original_result, returned_value>>
  /\ UNCHANGED <<fault, passVars, batchVars, callVars>>

\* split_pdf_enhanced has returned (success, explanation): success is logged
\* and returned.
ReturnSuccess ==
  /\ spc = "enhanced"
  /\ pc = "done"
  /\ returned_value' = success
  /\ spc' = "returned"
  /\ UNCHANGED <<original_called, original_result>>
  /\ UNCHANGED <<mainVars, fault, passVars, batchVars, callVars>>

\* The handlers: the original method runs and its result is returned.
OriginalSplitPoRouter ==
  /\ spc = "fallback"
  /\ original_called' = TRUE
  /\ \E r \in {"true", "false"} :
       /\ original_result' = r
       /\ returned_value' = r
  /\ spc' = "returned"
  /\ UNCHANGED <<mainVars, fault, passVars, batchVars, callVars>>

PatchNext ==
  \/ EnterSplitPoRouter
  \/ ReturnSuccess
  \/ OriginalSplitPoRouter
  \/ Next

PatchInit ==
  /\ NotCalled
  /\ PassesIdle
  /\ fault = NoFault
  /\ doc \in PatchDocuments
  /\ spc = "called"
  /\ original_called = FALSE
  /\ original_result = "pending"
  /\ returned_value = "pending"
  /\ rpc = "idle"
  /\ pdf_files = <<>>
  /\ file_index = 0
  /\ attempts = <<>>
  /\ processed_count = 0
  /\ error_count = 0
  /\ calls = 1
  /\ first_texts = [d \in Providers |-> <<>>]

PatchSpec == PatchInit /\ [][PatchNext]_vars

(***************************************************************************)
(* UnifiedOCRPipeline.run: the batch loop over the PDFs of the incoming    *)
(* directory.  A PDF is represented by what process_single_file does with  *)
(* it: it returns True, it returns False (a failed step, or an exception   *)
(* caught by its own handler), or it raises.                               *)
(***************************************************************************)
FileOutcomes == {"True", "False", "raised"}

IncomingDirectories ==
  UNION {[1..n -> FileOutcomes] : n \in 0..MaxFiles}

\* Variant: an exception of process_single_file leaves the loop.
run_loop_unprotected(outcome) ==
  IF outcome = "raised" THEN "aborted" ELSE "loop"

\* Lines 886-894: where run is after one iteration of the loop.
run_loop(outcome) == "loop"

\* Lines 868-882: the directory is looked up and globbed.
FindPdfFiles ==
  /\ rpc = "start"
  /\ \E exists \in BOOLEAN :
       rpc' = IF ~exists \/ pdf_files = <<>> THEN "returned_early" ELSE "loop"
  /\ UNCHANGED <<pdf_files, file_index, attempts, processed_count, error_count>>
  /\ UNCHANGED <<mainVars, fault, passVars, patchVars, callVars>>

\* Lines 886-894: one iteration of the loop, process_single_file included.
ProcessSingleFile ==
  /\ rpc = "loop"
  /\ file_index < Len(pdf_files)
  /\ LET outcome == pdf_files[file_index + 1]
     IN  /\ attempts' = [attempts EXCEPT ![file_index + 1] = @ + 1]
         /\ processed_count' = IF outcome = "True"
                               THEN processed_count + 1 ELSE processed_count
         /\ error_count' = IF outcome \in {"False", "raised"}
                           THEN error_count + 1 ELSE error_count
         /\ rpc' = run_loop(outcome)
         /\ file_index' = file_index + 1
  /\ UNCHANGED pdf_files
  /\ UNCHANGED <<mainVars, fault, passVars, patchVars, callVars>>

\* Line 896: the loop is exhausted and the counters are logged.
PipelineCompleted ==
  /\ rpc = "loop"
  /\ file_index = Len(pdf_files)
  /\ rpc' = "completed"
  /\ UNCHANGED <<pdf_files, file_index, attempts, processed_count, error_count>>
  /\ UNCHANGED <<mainVars, fault, passVars, patchVars, callVars>>

BatchNext ==
  \/ FindPdfFiles
  \/ ProcessSingleFile
  \/ PipelineCompleted

BatchInit ==
  /\ NotCalled
  /\ PassesIdle
  /\ fault = NoFault
  /\ doc = <<>>
  /\ spc = "idle"
  /\ original_called = FALSE
  /\ original_result = "pending"
  /\ returned_value = "pending"
  /\ rpc = "start"
  /\ pdf_files \in IncomingDirectories
  /\ file_index = 0
  /\ attempts = [i \in DOMAIN pdf_files |-> 0]
  /\ processed_count = 0
  /\ error_count = 0
  /\ calls = 1
  /\ first_texts = [d \in Providers |-> <<>>]

BatchSpec == BatchInit /\ [][BatchNext]_vars

\* run is sequential code and every blocking call of process_single_file
\* has a timeout: a step that can be taken is taken.
BatchLiveSpec == BatchSpec /\ WF_vars(BatchNext)

(***************************************************************************)
(* Properties.                                                             *)
(***************************************************************************)
AllResults == text_results \o layout_results \o content_results

\* The call of find_optimal_split_point has returned.
Returned == pc \in {"returned", "save_whole", "save_po", "save_router", "done"}

\* The branch of line 547 has been taken.
Decided == pc \in {"save_whole", "save_po", "save_router", "done"}

FirstPageText == extract_text_with_ocr_fallback(doc, 0)

AllPagePatterns == Range(page_patterns) \cup Range(ocr_page_patterns)

\* The numbers N of the "page 1 of N" markers that occur in a text.
Markers(text) ==
  {PhraseGroup(p, text[i]) : p \in AllPagePatterns, i \in DOMAIN text} \ {None}

\* What the three heuristic detectors report for the document.
HeuristicResults ==
  detect_by_text_patterns(doc) \o detect_by_layout_analysis(doc)
    \o detect_by_content_transition(doc)

WholeDocument == [i \in 1..Len(doc) |-> i - 1]

\* C1: when the text of the first page carries a "page 1 of N" marker with
\* N < totalPages, find_optimal_split_point returns split point N with
\* confidence exactly 1.0, whatever the heuristic detectors would report.
C1_IndicatorSplit ==
  Returned =>
    \A N \in Markers(FirstPageText) :
      N < Len(doc) => split_point = N /\ confidence = One

\* C1 happens: a marker with N < totalPages on a document for which the
\* heuristics would have chosen another page.
C1_Witness ==
  /\ pc = "returned"
  /\ \E N \in Markers(FirstPageText) : N < Len(doc)
  /\ HeuristicResults # <<>>
  /\ Aggregate(HeuristicResults).page # split_point

\* C2: when the text of the first page carries a "page 1 of N" marker with
\* N >= totalPages, find_optimal_split_point returns page None with
\* confidence exactly 1.0, whatever the heuristic detectors would report.
C2_IndicatorSingleSection ==
  Returned =>
    \A N \in Markers(FirstPageText) :
      N >= Len(doc) => split_point = None /\ confidence = One

\* C2 happens: a marker with N >= totalPages on a document in which the
\* heuristics would have found a split point.
C2_Witness ==
  /\ pc = "returned"
  /\ \E N \in Markers(FirstPageText) : N >= Len(doc)
  /\ Aggregate(HeuristicResults).page # None

\* C3: split_pdf_enhanced takes the NO_SPLIT branch exactly when the winning
\* page is None or its confidence is strictly below min_confidence (an equal
\* confidence splits); a call that ends in NO_SPLIT has written the entire
\* document as the PO output and no router output, and reports success.
C3_NoSplitDecision ==
  /\ Decided =>
       (decision = "NO_SPLIT"
          <=> (split_point = None \/ FLess(confidence, min_confidence)))
  /\ Decided /\ split_point # None /\ confidence = min_confidence
       => decision = "SPLIT"
  /\ pc = "done" /\ decision = "NO_SPLIT" /\ po_pdf.exists =>
       /\ po_pdf.pages = WholeDocument
       /\ ~router_pdf.exists
       /\ success = "true"

\* C3 happens: a page was found, its confidence is below the threshold and
\* the whole document has been saved as the PO.
C3_Witness ==
  /\ pc = "done"
  /\ decision = "NO_SPLIT"
  /\ split_point # None
  /\ po_pdf.exists

\* C4: page conservation.  Whenever split_pdf_enhanced succeeds, the PO
\* output followed by the router output is the sequence of all input pages,
\* each once and in the original order; with both outputs written,
\* pages(A) + pages(B) = totalPages.
C4_PageConservation ==
  pc = "done" /\ success = "true" =>
    /\ po_pdf.pages \o router_pdf.pages = WholeDocument
    /\ po_pdf.exists /\ router_pdf.exists
         => Len(po_pdf.pages) + Len(router_pdf.pages) = Len(doc)

\* C4 happens: a successful split that wrote both sections.
C4_Witness ==
  /\ pc = "done"
  /\ success = "true"
  /\ po_pdf.exists
  /\ router_pdf.exists

\* C5: threshold monotonicity.  If split_pdf_enhanced with threshold t1
\* splits the document at page p, then with any lower threshold t2 it splits
\* the same document at the same page p, and the tester's would_split agrees.
C5_ThresholdMonotonicity ==
  pc = "save_po" =>
    LET again == find_optimal_split_point(doc)
    IN  \A t2 \in Thresholds :
          FLess(t2, min_confidence) =>
            /\ again.page = split_point
            /\ ~NoSplitCondition(again.page, again.confidence, t2)
            /\ would_split(split_point, confidence, min_confidence)
            /\ would_split(split_point, confidence, t2)

\* C5 happens: a split under a threshold that is not the lowest one, with a
\* confidence that a lower threshold still separates from the threshold.
C5_Witness ==
  /\ pc = "save_po"
  /\ decision = "SPLIT"
  /\ \E t2 \in Thresholds : FLess(t2, min_confidence)
  /\ FLess(confidence, One)

\* The methods that reported page p.
MethodsAt(p) ==
  {AllResults[i].method : i \in {j \in DOMAIN AllResults : AllResults[j].page_num = p}}

\* C6: every DetectionResult of the three detectors has its confidence in
\* [0,1]; the confidence returned by find_optimal_split_point is never below
\* 0.0 and exceeds 1.0 only for a page reported by two distinct methods.
C6_ConfidenceRanges ==
  /\ \A i \in DOMAIN AllResults :
       /\ FLeq(Zero, AllResults[i].confidence)
       /\ FLeq(AllResults[i].confidence, One)
  /\ Returned =>
       /\ FLeq(Zero, confidence)
       /\ FLess(One, confidence) =>
            split_point # None /\ Cardinality(MethodsAt(split_point)) >= 2

\* C6 happens: an aggregated confidence above 1.0.
C6_Witness ==
  /\ pc = "returned"
  /\ FLess(One, confidence)

\* C7: every page index of a DetectionResult and every split point that is
\* not None, from the page indicator or from the heuristics, is at least 0
\* and below totalPages.
C7_IndexRange ==
  /\ \A i \in DOMAIN AllResults :
       0 <= AllResults[i].page_num /\ AllResults[i].page_num < Len(doc)
  /\ Returned /\ split_point # None =>
       0 <= split_point /\ split_point < Len(doc)

\* C7 happens: the content detector reports the last page and that page is
\* returned as the split point.
C7_Witness ==
  /\ pc = "returned"
  /\ split_point = Len(doc) - 1
  /\ \E i \in DOMAIN content_results :
       content_results[i].page_num = Len(doc) - 1

\* The page-count check found no marker and the three detectors have run
\* without a result.
NoEvidence ==
  /\ pc \in {"content_done", "returned", "save_whole", "save_po",
             "save_router", "done"}
  /\ po_length = None
  /\ AllResults = <<>>

\* C8: without a marker and without any heuristic result,
\* find_optimal_split_point returns (None, 0.0) and split_pdf_enhanced takes
\* the NO_SPLIT branch and saves the whole document as the PO with success;
\* the only failure left is that of the write itself.
C8_NoEvidence ==
  NoEvidence =>
    /\ Returned => split_point = None /\ confidence = Zero
    /\ Decided => decision = "NO_SPLIT"
    /\ pc = "done" /\ po_pdf.exists =>
         success = "true" /\ po_pdf.pages = WholeDocument /\ ~router_pdf.exists
    /\ success = "false" => pc = "done" /\ ~po_pdf.exists

\* C8 happens: a one-page document with only PO vocabulary has been saved.
C8_Witness ==
  /\ pc = "done"
  /\ success = "true"
  /\ Len(doc) = 1
  /\ NoEvidence
  /\ FindAllSum(po_patterns, FirstPageText) > 0
  /\ Markers(FirstPageText) = {}

ResultPages == {AllResults[i].page_num : i \in DOMAIN AllResults}

\* (sum of the confidences of page p / number of its results)
\*   + 0.1 x (number of its distinct methods - 1)
StatedConfidence(p) ==
  LET mine == SelectSeq(AllResults, LAMBDA r : r.page_num = p)
  IN  FAdd(FDiv(FSumFrom(Zero, [i \in DOMAIN mine |-> mine[i].confidence]),
                Len(mine)),
           FMul(Cardinality(MethodsAt(p)) - 1, Tenth(1)))

\* find_optimal_split_point has returned from the heuristic path with results.
HeuristicReturn == pc = "returned" /\ po_length = None /\ AllResults # <<>>

\* C9: in the heuristic path the returned page is a page with results whose
\* finalConfidence = average of its confidences + 0.1 x (distinct methods - 1),
\* not clamped, is maximal, and that finalConfidence is returned with it.
C9_MaximalFinalConfidence ==
  HeuristicReturn =>
    /\ split_point \in ResultPages
    /\ confidence = StatedConfidence(split_point)
    /\ \A p \in ResultPages : FLeq(StatedConfidence(p), confidence)

\* C9 happens: several pages have results and the winner, reported by more
\* than one method, scores above 1.0.
C9_Witness ==
  /\ HeuristicReturn
  /\ Cardinality(ResultPages) >= 2
  /\ Cardinality(MethodsAt(split_point)) >= 2
  /\ FLess(One, confidence)

\* The pages that share the maximal finalConfidence.
TiedPages ==
  {p \in ResultPages :
     \A q \in ResultPages : FLeq(StatedConfidence(q), StatedConfidence(p))}

\* Position in the concatenated results of the first result of page p.
FirstResult(p) ==
  CHOOSE i \in DOMAIN AllResults :
    /\ AllResults[i].page_num = p
    /\ \A j \in 1..(i - 1) : AllResults[j].page_num # p

\* C10 as stated: among the pages that share the maximal finalConfidence
\* the lowest page index is returned.
C10_LowestTiedPage ==
  HeuristicReturn => \A p \in TiedPages : split_point <= p

\* C10: among the pages that share the maximal finalConfidence the one is
\* returned whose first result comes first in the concatenation of the text
\* pattern, layout and content transition results.
C10_FirstTiedPage ==
  HeuristicReturn =>
    /\ split_point \in TiedPages
    /\ \A p \in TiedPages : FirstResult(split_point) <= FirstResult(p)

\* C10 happens: two pages share the maximum and the one returned is not the
\* lowest of them.
C10_Witness ==
  /\ HeuristicReturn
  /\ Cardinality(TiedPages) >= 2
  /\ \E p \in TiedPages : p < split_point

\* C11: whenever split_pdf_enhanced returns success = False, no output file
\* written by that attempt remains, neither the PO nor the router output,
\* also when the router save fails after the PO section was saved.
C11_NoOutputOnError ==
  pc = "done" /\ success = "false" => ~po_pdf.exists /\ ~router_pdf.exists

\* No detector is inside ocr_single_page.
OcrAtRest ==
  \A d \in Providers :
    ppc[d] \notin {"ocr_run", "ocr_read", "ocr_cleanup", "ocr_failed"}

\* C12: after ocr_single_page has returned, on any exit path (success,
\* non-zero exit status, timeout, any other exception raised after the
\* temporary page was created), neither temp_page_<n>.pdf nor
\* temp_page_<n>.ocr.pdf exists.
C12_TempFilesDeleted ==
  OcrAtRest => temp_files = {}

\* C13: extract_text_with_ocr_fallback never raises: no exception leaves it,
\* a call in which native extraction or OCR failed (a timeout included)
\* returns the empty string, what it returns is the text the detectors
\* compute with, and the pass of the detector that called it goes on over
\* all the pages of the document.
C13_ProviderNeverRaises ==
  \A d \in Providers :
    /\ raised[d] = "none"
    /\ ppc[d] # "aborted"
    /\ \A i \in DOMAIN texts[d] :
         texts[d][i] = extract_text_with_ocr_fallback(doc, i - 1)
    /\ failed[d] # "none" => texts[d] # <<>> /\ texts[d][Len(texts[d])] = <<>>
    /\ ppc[d] = "finished" => Len(texts[d]) = Len(doc)

\* C13 happens: OCR of a page ran into the timeout, the provider returned the
\* empty string and the detector is reading the next page.
C13_Witness ==
  \E d \in Providers :
    /\ ppc[d] = "extract"
    /\ page_num[d] >= 1
    /\ failed[d] = "timeout"
    /\ texts[d][page_num[d]] = <<>>

\* The results of method m in a call in which no exception is raised.
CleanResults(m) ==
  CASE m = "text_patterns"      -> detect_by_text_patterns(doc)
    [] m = "layout_analysis"    -> detect_by_layout_analysis(doc)
    [] m = "content_transition" -> detect_by_content_transition(doc)

\* The results method m has returned in this call.
ActualResults(m) ==
  CASE m = "text_patterns"      -> text_results
    [] m = "layout_analysis"    -> layout_results
    [] m = "content_transition" -> content_results

\* The pages whose evidence the fault takes away: the page being analysed,
\* and the next one where a result compares a page with the page before it.
FaultPages ==
  IF fault.method = "text_patterns" \/ fault.loop = "pairs"
  THEN {fault.page}
  ELSE {fault.page, fault.page + 1}

\* C14: if a detector raises while it analyses page k (or the pair ending at
\* k), only that page or pair of that method contributes no evidence: the
\* detector still reports every other page as it would have, the other
\* detectors report what they would have, and find_optimal_split_point
\* returns.
C14_FaultIsolation ==
  pc \in {"content_done", "returned"} /\ fault # NoFault =>
    \A m \in Methods :
      IF m = fault.method
      THEN /\ Range(ActualResults(m)) \subseteq Range(CleanResults(m))
           /\ \A r \in Range(CleanResults(m)) :
                r.page_num \notin FaultPages => r \in Range(ActualResults(m))
      ELSE ActualResults(m) = CleanResults(m)

\* Page p yields no text, neither from native extraction nor from OCR.
ZeroEvidencePage(p) ==
  doc[p + 1].native = <<>> /\ doc[p + 1].ocr = OcrFailed

\* The text detector has run in the heuristic path.
TextDone ==
  /\ po_length = None
  /\ pc \in {"text_done", "layout_done", "content_done", "returned",
             "save_whole", "save_po", "save_router", "done"}

\* "routing sheet" is read on page q.
HasRoutingSheet(q) ==
  "routing sheet" \in Range(extract_text_with_ocr_fallback(doc, q))

\* C15: a page that yields empty text from native extraction and from OCR is
\* a zero-evidence page: as the first page it makes the page-count detector
\* return None, the text detector has no result for it, and the detectors
\* evaluate the remaining pages: a later page with "routing sheet" gets its
\* text result, a change of orientation its layout result, and a page with
\* "routing sheet" after a page of PO vocabulary its content result.
C15_ZeroEvidencePage ==
  \A p \in 0..(Len(doc) - 1) :
    ZeroEvidencePage(p) =>
      /\ p = 0 /\ pc # "start" => po_length = None
      /\ TextDone =>
           /\ \A i \in DOMAIN text_results : text_results[i].page_num # p
           /\ \A q \in 0..(Len(doc) - 1) :
                HasRoutingSheet(q) =>
                  \E i \in DOMAIN text_results : text_results[i].page_num = q
      /\ TextDone /\ pc # "text_done" =>
           \A q \in 1..(Len(doc) - 1) :
             (doc[q].width > doc[q].height) # (doc[q + 1].width > doc[q + 1].height)
               => \E i \in DOMAIN layout_results : layout_results[i].page_num = q
      /\ TextDone /\ pc \notin {"text_done", "layout_done"} =>
           \A q \in 1..(Len(doc) - 1) :
             /\ FindAllSum(po_patterns, extract_text_with_ocr_fallback(doc, q - 1)) > 2
             /\ HasRoutingSheet(q)
             => \E i \in DOMAIN content_results : content_results[i].page_num = q

\* C15 happens: the first page is a zero-evidence page and each of the three
\* detectors has a result for a later page.
C15_Witness ==
  /\ pc = "content_done"
  /\ ZeroEvidencePage(0)
  /\ po_length = None
  /\ text_results # <<>>
  /\ layout_results # <<>>
  /\ content_results # <<>>

\* Scenario A: three pages; the first reads "Page 1 of 2" and purchase-order
\* vocabulary, the second and third read "ROUTING SHEET" and "OPERATION 10".
ScenarioA ==
  /\ Len(doc) = 3
  /\ {"page 1 of 2", "purchase order"} \subseteq Range(FirstPageText)
  /\ \A q \in 1..2 :
       {"routing sheet", "operation 10"}
         \subseteq Range(extract_text_with_ocr_fallback(doc, q))

\* C16 as stated: in Scenario A the split point is 1 with confidence 1.0,
\* section A is page 1 and section B is pages 2-3.
C16_ScenarioASplitAtOne ==
  ScenarioA =>
    /\ Returned => split_point = 1 /\ confidence = One
    /\ pc = "done" /\ success = "true" =>
         po_pdf.pages = <<0>> /\ router_pdf.pages = <<1, 2>>

\* C16: in Scenario A the split point is 2 (the N of "Page 1 of 2") with
\* confidence 1.0; section A is pages 1-2 and section B is page 3.
C16_ScenarioASplitAtTwo ==
  ScenarioA =>
    /\ Returned => split_point = 2 /\ confidence = One
    /\ Decided => decision = "SPLIT"
    /\ pc = "done" /\ success = "true" =>
         po_pdf.pages = <<0, 1>> /\ router_pdf.pages = <<2>>

\* C16 happens: the document of Scenario A has been split.
C16_Witness ==
  /\ pc = "done"
  /\ success = "true"
  /\ ScenarioA

\* Scenario C: four pages without page-count marker; the first two are
\* portrait and read PO vocabulary, the last two are landscape and read
\* "manufacturing routing" and "operation sequence".
ScenarioC ==
  /\ Len(doc) = 4
  /\ \A q \in 0..3 :
       LET text == extract_text_with_ocr_fallback(doc, q)
       IN  /\ Markers(text) = {}
           /\ q <= 1 => /\ doc[q + 1].width <= doc[q + 1].height
                        /\ FindAllSum(po_patterns, text) > 0
                        /\ pattern_counts(text) = {}
           /\ q >= 2 => /\ doc[q + 1].width > doc[q + 1].height
                        /\ {"manufacturing routing", "operation sequence"}
                             \subseteq Range(text)

\* C17: in Scenario C the text detector and the layout detector both flag
\* page index 2, the aggregated confidence of that page is at least
\* 0.4 + 0.1, and the split point returned is 2.
C17_ScenarioC ==
  ScenarioC /\ pc \in {"content_done", "returned"} =>
    /\ \E i \in DOMAIN text_results : text_results[i].page_num = 2
    /\ \E i \in DOMAIN layout_results : layout_results[i].page_num = 2
    /\ FLeq(FAdd(Tenth(4), Tenth(1)), StatedConfidence(2))
    /\ pc = "returned" => split_point = 2

\* C18: the detectors share no mutable state.  Run side by side on the same
\* document they yield the DetectionResults they yield one after the other,
\* and no detector deletes or replaces a file another one works on: the
\* temporary page a detector has saved is there when its OCR runs, and the
\* OCR output is there when the detector reads it.
C18_NoSharedState ==
  /\ \A d \in Providers :
       /\ ppc[d] = "ocr_run" => temp_pdf(page_num[d]) \in temp_files
       /\ ppc[d] = "ocr_read" => temp_ocr(page_num[d]) \in temp_files
  /\ ppc["text_patterns"] = "finished" =>
       text_results_of(texts["text_patterns"]) = detect_by_text_patterns(doc)
  /\ ppc["content_transition"] = "finished" =>
       content_results_of(texts["content_transition"])
         = detect_by_content_transition(doc)

\* The orders in which the three result lists can be concatenated.
Orders ==
  {o \in [1..3 -> {text_results, layout_results, content_results}] :
     \A m \in Methods : \E i \in 1..3 : o[i] = ActualResults(m)}

\* Lines 488-533 for the result lists concatenated in order o.
AggregateInOrder(o) == Aggregate(o[1] \o o[2] \o o[3])

\* The finalConfidence of page p when the lists are concatenated in order o.
ConfidenceInOrder(o, p) ==
  final_confidence(page_scores(o[1] \o o[2] \o o[3], p))

\* No page is reported by all three detectors.
NoTriple == \A p \in ResultPages : Cardinality(MethodsAt(p)) <= 2

\* C19 as stated: the (page, confidence) returned by find_optimal_split_point
\* is the same for every order in which the detectors are run and their
\* result lists concatenated.
C19_OrderIndependent ==
  pc = "returned" /\ po_length = None =>
    \A o \in Orders :
      AggregateInOrder(o) = [page |-> split_point, confidence |-> confidence]

\* C19: in every order the page returned is None exactly when there is no
\* result, and otherwise a page whose finalConfidence in that order is
\* maximal, returned with that finalConfidence; when no page is reported by
\* all three detectors the confidence returned is the same in every order,
\* and when moreover a single page has the maximal finalConfidence the page
\* returned is the same in every order.
C19_OrderIndependentUpToTies ==
  pc = "returned" /\ po_length = None =>
    \A o \in Orders :
      LET r == AggregateInOrder(o)
      IN  /\ r.page = None <=> AllResults = <<>>
          /\ r.page # None =>
               /\ r.page \in ResultPages
               /\ r.confidence = ConfidenceInOrder(o, r.page)
               /\ \A p \in ResultPages : FLeq(ConfidenceInOrder(o, p), r.confidence)
          /\ NoTriple => r.confidence = confidence
          /\ NoTriple /\ Cardinality(TiedPages) = 1 => r.page = split_point

\* C19 happens: two detectors report the same page, another page has a
\* result as well, and a single page has the maximal finalConfidence.
C19_Witness ==
  /\ pc = "returned"
  /\ po_length = None
  /\ NoTriple
  /\ Cardinality(TiedPages) = 1
  /\ Cardinality(ResultPages) >= 2
  /\ Cardinality(MethodsAt(split_point)) = 2

\* C20: in the SPLIT outcome section A (pages [0, splitPoint)) is written
\* iff splitPoint > 0 and section B (pages [splitPoint, totalPages)) iff
\* splitPoint < totalPages; no output with an empty page range is ever
\* created, and a range is empty only for A at splitPoint = 0 or for B at
\* splitPoint = totalPages.
C20_SectionsWritten ==
  /\ po_pdf.exists => po_pdf.pages # <<>>
  /\ router_pdf.exists => router_pdf.pages # <<>>
  /\ Decided /\ decision = "SPLIT" =>
       /\ 0 <= split_point /\ split_point <= Len(doc)
       /\ insert_pdf(0, split_point - 1) = <<>> <=> split_point = 0
       /\ insert_pdf(split_point, Len(doc) - 1) = <<>> <=> split_point = Len(doc)
  /\ pc = "done" /\ decision = "SPLIT" /\ success = "true" =>
       /\ po_pdf.exists <=> split_point > 0
       /\ router_pdf.exists <=> split_point < Len(doc)
       /\ po_pdf.exists => po_pdf.pages = [i \in 1..split_point |-> i - 1]
       /\ router_pdf.exists =>
            router_pdf.pages
              = [i \in 1..(Len(doc) - split_point) |-> split_point + i - 1]

\* C20 happens: a split at page 0, where section A is empty: no PO output,
\* and the router output holds the whole document.
C20_Witness ==
  /\ pc = "done"
  /\ decision = "SPLIT"
  /\ success = "true"
  /\ split_point = 0
  /\ ~po_pdf.exists
  /\ router_pdf.pages = WholeDocument

\* The enhanced splitter has failed: split_pdf_enhanced returned
\* success = False, or it could not be called at all.
EnhancedFailed ==
  \/ success = "false"
  \/ spc \in {"fallback", "returned", "raised"} /\ pc = "not_called"

\* C21: graceful fallback.  In the patched split_po_router, whenever the
\* enhanced splitter has failed (also when split_pdf_enhanced hit an error
\* while detecting or writing), the original splitting method has been
\* invoked when split_po_router returns, and its result is what is returned.
C21_GracefulFallback ==
  spc = "returned" /\ EnhancedFailed =>
    original_called /\ returned_value = original_result

\* run has returned.
RunReturned == rpc \in {"returned_early", "completed"}

\* C22: in UnifiedOCRPipeline.run a failing document never blocks later
\* ones: the run always ends, never attempts a PDF twice and, when it ends
\* after the loop, has attempted every PDF found exactly once, whatever
\* process_single_file returned or raised for earlier files, with
\* processed_count + error_count equal to the number of PDFs found.
C22_BatchNeverBlocked ==
  /\ <>RunReturned
  /\ [](\A i \in DOMAIN pdf_files : attempts[i] <= 1)
  /\ [](rpc = "completed" =>
          /\ \A i \in DOMAIN pdf_files : attempts[i] = 1
          /\ processed_count + error_count = Len(pdf_files))

\* C22 happens: a run is complete in which a file that raised and a file
\* that returned False were followed by a file processed with success.
C22_Witness ==
  /\ rpc = "completed"
  /\ \E i, j, k \in DOMAIN pdf_files :
       /\ i < k /\ j < k
       /\ pdf_files[i] = "raised"
       /\ pdf_files[j] = "False"
       /\ pdf_files[k] = "True"
  /\ processed_count >= 1
  /\ error_count >= 2

\* The second call of find_optimal_split_point has returned.
SecondCallReturned ==
  calls = 2 /\ \A d \in Providers : ppc[d] = "finished"

\* C23: idempotence.  Two successive calls of find_optimal_split_point on an
\* unmodified document, the providers returning the same texts and layouts,
\* return the same (pageIndex, confidence), whatever temporary files the
\* first call left in the directory.
C23_Idempotent ==
  SecondCallReturned =>
    /\ texts = first_texts
    /\ find_optimal_split_point_of(doc, texts)
         = find_optimal_split_point_of(doc, first_texts)
    /\ find_optimal_split_point_of(doc, texts) = find_optimal_split_point(doc)

\* C23 happens: the second call has returned a split point found by the
\* heuristics although files of a page on which OCR failed are left in the
\* directory.
C23_Witness ==
  /\ SecondCallReturned
  /\ temp_files # {}
  /\ detect_po_length_from_page_indicators(doc) = None
  /\ find_optimal_split_point_of(doc, texts).page # None

\* A step in which a heuristic detector runs (lines 484-486).
DetectorStep ==
  pc' # pc /\ pc' \in {"text_done", "layout_done", "content_done"}

\* A step in which the results are aggregated (lines 488-533).
AggregationStep == pc = "content_done" /\ pc' # pc

\* C24: in every call of find_optimal_split_point the page-count indicator
\* check is the first step and has completed before a heuristic detector
\* starts; if it yields an N, no heuristic detector and no aggregation step
\* runs in that call, and no detector result exists when the call returns.
C24_IndicatorBeforeHeuristics ==
  [][ /\ pc = "start" /\ pc' # pc =>
           pc' = "indicator_checked"
             /\ po_length' = detect_po_length_from_page_indicators(doc)
      /\ DetectorStep =>
           pc \in {"indicator_checked", "text_done", "layout_done"}
             /\ po_length = None
      /\ AggregationStep => po_length = None
      /\ po_length # None => ~DetectorStep /\ ~AggregationStep
      /\ po_length # None /\ pc' = "returned" =>
           text_results' = <<>> /\ layout_results' = <<>>
             /\ content_results' = <<>> ]_vars

\* C24 happens: a call has returned on the indicator alone for a document
\* on which the heuristic detectors would have reported pages.
C24_Witness ==
  /\ pc = "returned"
  /\ po_length # None
  /\ AllResults = <<>>
  /\ HeuristicResults # <<>>

\* The finalConfidence page p would receive from the result r alone.
AloneConfidence(r) == final_confidence(page_scores(<<r>>, r.page_num))

\* C25: convergence is rewarded over single-method strength.  A page
\* flagged by two or more distinct methods receives a finalConfidence at
\* least as high as the finalConfidence the same page would receive from
\* any single one of those methods' results alone.
C25_ConvergenceRewarded ==
  pc = "returned" /\ po_length = None =>
    \A p \in ResultPages :
      Cardinality(MethodsAt(p)) >= 2 =>
        \A i \in DOMAIN AllResults :
          AllResults[i].page_num = p =>
            FLeq(AloneConfidence(AllResults[i]),
                 final_confidence(page_scores(AllResults, p)))

\* Two floats differ by rounding only (by less than 2^-50).
Near(x, y) ==
  LET d == FSub(x, y)
  IN  d.m[1] = 0 /\ d.m[2] = 0 /\ d.m[3] < 2^10

\* The tier weights in tenths.
TierTenths(strength) ==
  CASE strength = "very_strong" -> 5
    [] strength = "strong"      -> 3
    [] strength = "medium"      -> 2
    [] strength = "weak"        -> 1

Clamp(tenths) == Max(0, IF tenths > 10 THEN 10 ELSE tenths)

\* The score the specification gives a page of text, in tenths: the sum
\* over the matched router patterns of count x tier weight, minus 0.2 for
\* more than three PO-vocabulary occurrences, plus 0.1 for three or more
\* distinct patterns, clamped to [0,1].
StatedTextScore(text) ==
  LET matched ==
        SumSeq([i \in DOMAIN RouterPatternList |->
                  FindAll(RouterPatternList[i].pattern, text)
                    * TierTenths(RouterPatternList[i].strength)])
      penalty == IF FindAllSum(po_patterns, text) > 3 THEN 2 ELSE 0
      bonus == IF Cardinality({q \in AllRouterPatterns : FindAll(q, text) > 0}) >= 3
               THEN 1 ELSE 0
  IN  Clamp(matched - penalty + bonus)

TextResultsAt(p) == SelectSeq(text_results, LAMBDA r : r.page_num = p)

\* C26: for every page with non-empty text, the text detector emits a
\* result if and only if the stated score (count x tier weight summed,
\* PO penalty, diversity bonus, clamped) exceeds 0.3, and the confidence of
\* the result is that score.
C26_TextScore ==
  TextDone =>
    \A p \in 0..(Len(doc) - 1) :
      LET text == extract_text_with_ocr_fallback(doc, p)
      IN  text # <<>> =>
            /\ TextResultsAt(p) # <<>> <=> StatedTextScore(text) > 3
            /\ \A i \in DOMAIN TextResultsAt(p) :
                 Near(TextResultsAt(p)[i].confidence,
                      Tenth(StatedTextScore(text)))

\* The layout detector has run in the heuristic path.
LayoutDone ==
  /\ po_length = None
  /\ pc \in {"layout_done", "content_done", "returned", "save_whole",
             "save_po", "save_router", "done"}

\* The score the specification gives page cur after page prev, in tenths:
\* 0.6 for a change of orientation, 0.4 for average font sizes more than 2
\* apart, 0.3 for a change of dominant font when both pages have one, 0.3
\* for a drop of the text-block count by more than 40% of the predecessor's
\* count (a drop to no block at all included), clamped to [0,1].
StatedLayoutScore(prev, cur) ==
  LET landscape(page) == page.width > page.height
      blocks(page) == Len(page.spans)
      fonts(page) == {page.spans[i].font : i \in DOMAIN page.spans}
      dominant(page) ==
        CHOOSE f \in fonts(page) :
          \A g \in fonts(page) : FontCount(page.spans, g) <= FontCount(page.spans, f)
      sizes(page) == SumSeq([i \in DOMAIN page.spans |-> page.spans[i].size])
  IN  Clamp(
          (IF landscape(cur) # landscape(prev) THEN 6 ELSE 0)
        + (IF /\ blocks(cur) > 0 /\ blocks(prev) > 0
              /\ Abs(sizes(cur) * blocks(prev) - sizes(prev) * blocks(cur))
                   > 2 * blocks(cur) * blocks(prev)
           THEN 4 ELSE 0)
        + (IF /\ blocks(cur) > 0 /\ blocks(prev) > 0
              /\ dominant(cur) # dominant(prev)
           THEN 3 ELSE 0)
        + (IF /\ blocks(prev) > 0
              /\ 10 * (blocks(prev) - blocks(cur)) > 4 * blocks(prev)
           THEN 3 ELSE 0))

LayoutResultsAt(p) == SelectSeq(layout_results, LAMBDA r : r.page_num = p)

\* C27: for every page with a predecessor, the layout detector reports the
\* page if and only if the stated score (orientation, font size, dominant
\* font, drop of the text-block count including a drop to zero blocks,
\* clamped) exceeds 0.4, and the confidence of the result is that score.
C27_LayoutScore ==
  LayoutDone =>
    \A p \in 1..(Len(doc) - 1) :
      LET score == StatedLayoutScore(doc[p], doc[p + 1])
      IN  /\ LayoutResultsAt(p) # <<>> <=> score > 4
          /\ \A i \in DOMAIN LayoutResultsAt(p) :
               Near(LayoutResultsAt(p)[i].confidence, Tenth(score))

\* The content detector has run in the heuristic path.
ContentDone ==
  /\ po_length = None
  /\ pc \in {"content_done", "returned", "save_whole", "save_po",
             "save_router", "done"}

\* Occurrences of PO vocabulary, and of router vocabulary weighted
\* 4/3/2/1 by tier, in a text.
StatedPO(text) ==
  SumSeq([i \in DOMAIN po_patterns |-> FindAll(po_patterns[i], text)])

StatedRouterWeighted(text) ==
  SumSeq([i \in DOMAIN RouterPatternList |->
            FindAll(RouterPatternList[i].pattern, text)
              * (CASE RouterPatternList[i].strength = "very_strong" -> 4
                   [] RouterPatternList[i].strength = "strong"      -> 3
                   [] RouterPatternList[i].strength = "medium"      -> 2
                   [] RouterPatternList[i].strength = "weak"        -> 1)])

\* The score the specification gives the pair (prev, curr) of page texts,
\* in tenths.
StatedContentScore(prev, curr) ==
  LET poDrop == StatedPO(prev) - StatedPO(curr)
      routerRise == StatedRouterWeighted(curr) - StatedRouterWeighted(prev)
      rise(feature) == FeatureCount(feature, curr) - FeatureCount(feature, prev)
  IN  Clamp(
          (IF poDrop > 2 /\ routerRise > 3 THEN 7 ELSE 0)
        + (IF rise("numeric_ops") > 1 THEN 3 ELSE 0)
        + (IF rise("time_references") > 0 THEN 2 ELSE 0)
        + (IF rise("machine_references") > 0 THEN 2 ELSE 0)
        + (IF rise("measurements") > 0 THEN 1 ELSE 0))

ContentResultsAt(p) == SelectSeq(content_results, LAMBDA r : r.page_num = p)

\* The stated score of the pair of pages p - 1 and p of the document.
PairScore(p) ==
  StatedContentScore(extract_text_with_ocr_fallback(doc, p - 1),
                     extract_text_with_ocr_fallback(doc, p))

\* C28: for every adjacent pair (prev, curr) the content detector emits a
\* result if and only if the stated score (0.7 for poDrop > 2 with
\* routerRise > 3, 0.3 for operations up by more than 1, 0.2 each for time
\* and machine references up, 0.1 for measurements up, clamped) exceeds
\* 0.5; the result carries that score and the page index of curr, and the
\* first page is never reported.
C28_ContentScore ==
  ContentDone =>
    /\ ContentResultsAt(0) = <<>>
    /\ \A p \in 1..(Len(doc) - 1) :
         /\ ContentResultsAt(p) # <<>> <=> PairScore(p) > 5
         /\ Len(ContentResultsAt(p)) <= 1
         /\ \A i \in DOMAIN ContentResultsAt(p) :
              Near(ContentResultsAt(p)[i].confidence, Tenth(PairScore(p)))

\* C28 happens: one pair scores exactly 0.5 on the rise of time, machine
\* and measurement mentions and is not reported, another is reported for
\* the shift from PO to router vocabulary under the index of its later page.
C28_Witness ==
  /\ pc = "content_done"
  /\ \E p \in 1..(Len(doc) - 1) : PairScore(p) = 5 /\ ContentResultsAt(p) = <<>>
  /\ \E p \in 1..(Len(doc) - 1) :
       /\ PairScore(p) = 7
       /\ ContentResultsAt(p) # <<>>
       /\ ContentResultsAt(p - 1) = <<>>

\* The results of method m for page p.
ResultsOf(m, p) ==
  SelectSeq(AllResults, LAMBDA r : r.method = m /\ r.page_num = p)

\* C29: in the heuristic path find_optimal_split_point returns page None if
\* and only if the three detectors produced no result at all; with at least
\* one result it returns a page with a confidence strictly above 0.3 and at
\* most 1.2, each method contributing at most one result per page.
C29_HeuristicPathReturn ==
  pc = "returned" /\ po_length = None =>
    /\ split_point = None <=> AllResults = <<>>
    /\ AllResults # <<>> =>
         /\ split_point \in 0..(Len(doc) - 1)
         /\ FLess(Tenth(3), confidence)
         /\ FLeq(confidence, FAdd(One, Tenth(2)))
    /\ \A m \in Methods : \A p \in 0..(Len(doc) - 1) : Len(ResultsOf(m, p)) <= 1

\* C29 happens: the returned page has a result of each of the three methods
\* and scores above 1.0.
C29_Witness ==
  /\ pc = "returned"
  /\ po_length = None
  /\ split_point # None
  /\ \A m \in Methods : Len(ResultsOf(m, split_point)) = 1
  /\ FLess(One, confidence)

\* C30: the layout and content detectors never emit a result for page index
\* 0, so in the heuristic path a split point of 0 comes only from a result of
\* the text pattern detector for the first page.
C30_FirstPageOnlyByText ==
  /\ \A i \in DOMAIN layout_results : layout_results[i].page_num >= 1
  /\ \A i \in DOMAIN content_results : content_results[i].page_num >= 1
  /\ pc = "returned" /\ po_length = None /\ split_point = 0 =>
       /\ \E i \in DOMAIN text_results : text_results[i].page_num = 0
       /\ \A i \in DOMAIN AllResults :
            AllResults[i].page_num = 0 => AllResults[i].method = "text_patterns"

\* C30 happens: the heuristic path returns page 0 for a document of several
\* pages in which the layout detector reported a later page.
C30_Witness ==
  /\ pc = "returned"
  /\ po_length = None
  /\ split_point = 0
  /\ Len(doc) >= 2
  /\ layout_results # <<>>

====
